---- MODULE Spec2Model ----
(***************************************************************************)
(* A model of the amplec core pipeline: KartonPreprocessor (normalize),    *)
(* NLPreprocessor (naturalize), Enricher (enrich), the persistence-backed  *)
(* cache in Amplec._process_submission_ID and the filter in                *)
(* Amplec.generate_llm_data_input_from_submission_id.                      *)
(*                                                                         *)
(* Python values are tagged records:                                       *)
(*   [t |-> "str",  s |-> "..."]        a string                           *)
(*   [t |-> "int",  n |-> 3]            a number                           *)
(*   [t |-> "list", items |-> <<...>>]  a list                             *)
(*   [t |-> "dict", kv |-> <<<<k, v>>, ...>>]  a dict, in insertion order  *)
(*   [t |-> "none"]                     None                               *)
(* A sentence is a sequence of text pieces; the pieces that the technique  *)
(* pattern reads ("T", digits, ".") are single characters.                 *)
(***************************************************************************)
EXTENDS Integers, Sequences, FiniteSets, TLC

VARIABLES
    \* Enricher.process: the caller's list object, the list as it was when
    \* passed in, the table, the returned value, the position of the call
    data, enr_arg, ttp_context, enr_ret, enr_pc

enr_vars == <<data, enr_arg, ttp_context, enr_ret, enr_pc>>

VARIABLES
    \* KartonPreprocessor._build_hierarchy_from_payload_dict: the payloads
    \* passed in, what the call gave (hierarchy, self.configs, exception),
    \* the position of the call
    payload_dict, hier_ret, hier_pc

hier_vars == <<payload_dict, hier_ret, hier_pc>>

VARIABLES
    \* KartonPreprocessor._retrieve_triage_data: the detail kind asked for,
    \* the answer of the triage API (status_code and JSON body), what the call
    \* gave, the position of the call
    triage_type, response, triage_ret, triage_pc

triage_vars == <<triage_type, response, triage_ret, triage_pc>>

VARIABLES
    \* The requests to /process: for each, its position, its arguments and the
    \* locals of generate_llm_data_input_from_submission_id and
    \* _process_submission_ID; the persistence folder
    calls, persistence

pipe_vars == <<calls, persistence>>

VARIABLES
    \* The filter of generate_llm_data_input_from_submission_id on its own:
    \* the list filtered, regex_or_search, use_regex, what the filter gave,
    \* what it gave when run on its own result, the position
    flt_lines, flt_search, flt_regex, flt_ret, flt_again, flt_pc

filter_vars == <<flt_lines, flt_search, flt_regex, flt_ret, flt_again, flt_pc>>

VARIABLES
    \* NLPreprocessor.naturalize: the structure passed in, what the call
    \* gave, the position of the call
    nat_arg, nat_ret, nat_pc

nat_vars == <<nat_arg, nat_ret, nat_pc>>

VARIABLES
    \* KartonPreprocessor.process: the raw report passed in, the answers of
    \* the triage API, what the call gave (dict, exception, requests made),
    \* the position of the call
    raw_report, triage_api, norm_ret, norm_pc

norm_vars == <<raw_report, triage_api, norm_ret, norm_pc>>

other_vars == <<filter_vars, nat_vars, norm_vars>>

vars == <<enr_vars, hier_vars, triage_vars, pipe_vars, other_vars>>

----------------------------------------------------------------------------
(* Python values *)

None == [t |-> "none"]
Pending == [t |-> "pending"]
PyStr(x) == [t |-> "str", s |-> x]
PyInt(x) == [t |-> "int", n |-> x]
PyList(x) == [t |-> "list", items |-> x]
PyDict(x) == [t |-> "dict", kv |-> x]

IsDict(v) == v.t = "dict"
IsList(v) == v.t = "list"
IsStr(v) == v.t = "str"

EmptyDict == PyDict(<<>>)
EmptyList == PyList(<<>>)

\* An exception that leaves a call.
Raised(type) == [t |-> "exception", type |-> type]
IsRaised(v) == v.t = "exception"

\* bool(v)
Truthy(v) ==
    CASE v.t = "none" -> FALSE
      [] v.t = "str" -> v.s # ""
      [] v.t = "int" -> v.n # 0
      [] v.t = "list" -> v.items # <<>>
      [] v.t = "dict" -> v.kv # <<>>
      [] OTHER -> TRUE

\* dict operations; a dict keeps its keys in insertion order
HasKey(d, k) == \E i \in 1..Len(d.kv) : d.kv[i][1] = k
KeyIndex(d, k) == CHOOSE i \in 1..Len(d.kv) : d.kv[i][1] = k
Get(d, k, default) == IF HasKey(d, k) THEN d.kv[KeyIndex(d, k)][2] ELSE default
SetItem(d, k, v) ==
    IF HasKey(d, k)
    THEN PyDict([i \in 1..Len(d.kv) |-> IF d.kv[i][1] = k THEN <<k, v>> ELSE d.kv[i]])
    ELSE PyDict(Append(d.kv, <<k, v>>))
Keys(d) == {d.kv[i][1] : i \in 1..Len(d.kv)}

\* lst.append(v)
ListAppend(lst, v) == PyList(Append(lst.items, v))

\* The set of the elements of a sequence.
Range(seq) == {seq[i] : i \in 1..Len(seq)}

\* The element of a one-element set. {e(x) : x \in {v}} computes v once,
\* however often e reads x.
The(S) == CHOOSE x \in S : TRUE

\* All the orders in which a finite set can be iterated.
SetOrders(S) ==
    {o \in [1..Cardinality(S) -> S] : \A i, j \in 1..Cardinality(S) : o[i] = o[j] => i = j}

----------------------------------------------------------------------------
(* The parts of the state a run does not use stay as they are here. *)

EnrichIdle ==
    /\ data = <<>> /\ enr_arg = <<>> /\ ttp_context = <<>>
    /\ enr_ret = Pending /\ enr_pc = "idle"

HierIdle == payload_dict = EmptyDict /\ hier_ret = Pending /\ hier_pc = "idle"

TriageIdle ==
    /\ triage_type = "" /\ response = Pending
    /\ triage_ret = Pending /\ triage_pc = "idle"

\* The requests of a run
NCalls == 2

\* The submission ids of the model: a canonical version 4 UUID, a canonical
\* UUID of version 1, a text that is no UUID
SubmissionIds ==
    {"3f2b8c1e-7a4d-4e9b-8c2f-1a2b3c4d5e6f", "3f2b8c1e-7a4d-11e9-8c2f-1a2b3c4d5e6f",
     "not-a-uuid"}

\* The folder holds no file for an id
NoEntry == [t |-> "noentry"]

IdleCall ==
    [pc |-> "idle", karton_submission_id |-> "", regex_or_search |-> "",
     use_regex |-> FALSE, reprocess |-> FALSE, repreprocess |-> FALSE,
     status_code |-> 0, karton_result |-> Pending, preprocessed_data |-> Pending, naturalized_data |-> Pending,
     enriched_data |-> Pending, steps |-> <<>>, fetches |-> 0, result |-> Pending]

PipelineIdle ==
    /\ calls = [c \in 1..NCalls |-> IdleCall]
    /\ persistence = [id \in SubmissionIds |-> NoEntry]

FilterIdle ==
    /\ flt_lines = EmptyList /\ flt_search = "" /\ flt_regex = FALSE
    /\ flt_ret = Pending /\ flt_again = Pending /\ flt_pc = "idle"

NaturalizeIdle == nat_arg = EmptyDict /\ nat_ret = Pending /\ nat_pc = "idle"

NormalizeIdle ==
    /\ raw_report = EmptyDict /\ triage_api = <<>>
    /\ norm_ret = Pending /\ norm_pc = "idle"

OthersIdle == FilterIdle /\ NaturalizeIdle /\ NormalizeIdle

----------------------------------------------------------------------------
(* Enricher *)

Digits == {"0", "1", "2", "3", "4", "5", "6", "7", "8", "9"}

DigitsAt(s, i, n) == i + n - 1 <= Len(s) /\ \A k \in i..(i + n - 1) : s[k] \in Digits

\* Length of the match of T\d{4}(\.\d{3})? that starts at position i, 0 if none.
\* The optional group is greedy: it is taken whenever it can be.
TtpMatchLen(s, i) ==
    IF i <= Len(s) /\ s[i] = "T" /\ DigitsAt(s, i + 1, 4)
    THEN IF i + 5 <= Len(s) /\ s[i + 5] = "." /\ DigitsAt(s, i + 6, 3) THEN 9 ELSE 5
    ELSE 0

\* re.search(r"T\d{4}(\.\d{3})?", sentence) is not None
re_search(s) == \E i \in 1..Len(s) : TtpMatchLen(s, i) > 0

\* What re.findall gives for a pattern with one capturing group: for each
\* non-overlapping match, left to right, the text of the GROUP (the empty
\* string when the group took no part in the match), not the whole match.
RECURSIVE FindallFrom(_, _)
FindallFrom(s, i) ==
    IF i > Len(s) THEN <<>>
    ELSE IF TtpMatchLen(s, i) = 9
         THEN <<SubSeq(s, i + 5, i + 8)>> \o FindallFrom(s, i + 9)
         ELSE IF TtpMatchLen(s, i) = 5
              THEN <<(<<>>)>> \o FindallFrom(s, i + 5)
              ELSE FindallFrom(s, i + 1)

re_findall(s) == FindallFrom(s, 1)

\* The set ttps that _enrich_ttps collects from the sentences it is given.
CollectTtps(ttp_containing_sentences) ==
    UNION {Range(re_findall(ttp_containing_sentences[k])) :
              k \in 1..Len(ttp_containing_sentences)}

ContextSentence(ttp, context) ==
    <<"TTP ">> \o ttp \o <<" has the name ", context.name,
                           " and the description ", context.description>>

\* The loop of _enrich_ttps over the set, iterated in the order `order`.
RECURSIVE ContextLoop(_, _, _)
ContextLoop(order, k, table) ==
    IF k > Len(order) THEN <<>>
    ELSE IF order[k] \notin DOMAIN table
         THEN ContextLoop(order, k + 1, table)
         ELSE <<ContextSentence(order[k], table[order[k]])>>
                  \o ContextLoop(order, k + 1, table)

enrich_ttps(order, table) == ContextLoop(order, 1, table)

\* A Python list comprehension with a condition.
RECURSIVE TtpContaining(_)
TtpContaining(sentences) ==
    IF sentences = <<>> THEN <<>>
    ELSE (IF re_search(Head(sentences)) THEN <<Head(sentences)>> ELSE <<>>)
             \o TtpContaining(Tail(sentences))

\* Enricher.process(data), the set iterated in `order`: the value returned
\* and the list object that was passed in, as it is after the call.
\* list.extend works in place and returns None.
EnricherProcess(d, order, table) ==
    [ret |-> None, data |-> d \o enrich_ttps(order, table)]

EnricherOrders(d) == SetOrders(CollectTtps(TtpContaining(d)))

----------------------------------------------------------------------------
(* KartonPreprocessor: the hierarchy *)

\* _process_payload_entry
process_payload_entry(payload_entry) ==
    LET attributes == Get(payload_entry, "attributes", EmptyDict)
        families == Get(attributes, "families", None)
        ret0 == IF Truthy(families) THEN SetItem(EmptyDict, "families", families)
                ELSE EmptyDict
        ret1 == SetItem(ret0, "created_by", Get(payload_entry, "created_by", PyStr("")))
        ret2 == SetItem(ret1, "file_magic", Get(attributes, "file-magic", PyStr("")))
        ret3 == SetItem(ret2, "type", Get(attributes, "type", PyStr("")))
    IN  SetItem(ret3, "children", EmptyList)

\* An append that puts the hash of the parent next to that of the child
AppendChildAndParent(hierarchy, key, sha256) ==
    LET node == Get(hierarchy, key, EmptyDict)
        sha256_of_key == Get(node, "sha256", PyStr(key))
    IN  SetItem(hierarchy, key,
                SetItem(node, "children",
                        PyList(Get(node, "children", EmptyList).items
                                   \o <<PyStr(sha256), sha256_of_key>>)))

\* hierarchy[key]["children"].append(sha256)
AppendChild(hierarchy, key, sha256) ==
    LET node == Get(hierarchy, key, EmptyDict)
    IN  SetItem(hierarchy, key,
                SetItem(node, "children",
                        ListAppend(Get(node, "children", EmptyList), PyStr(sha256))))

\* The first loop: the index of the payload kept as root_payload, 0 when
\* none has parent_payload_id == "". A later candidate overwrites an earlier.
IsRootCandidate(payload) == Get(payload, "parent_payload_id", PyStr("none")) = PyStr("")

RootIndex(pd) ==
    IF \E i \in 1..Len(pd.kv) : IsRootCandidate(pd.kv[i][2])
    THEN CHOOSE i \in 1..Len(pd.kv) :
            /\ IsRootCandidate(pd.kv[i][2])
            /\ \A j \in (i + 1)..Len(pd.kv) : ~IsRootCandidate(pd.kv[j][2])
    ELSE 0

\* The parent lookup of the elif branch: the key that is read there.
LinkedParentKey(payload) == Get(payload, "payload_parent_id", PyStr(""))

\* One iteration of the second loop, on the state
\* [hierarchy, configs, exc]; an exception ends the loop.
BuildStep(st, sha256, payload, root_sha256) ==
    LET payload_type == Get(payload, "payload_type", PyStr(""))
        parent == Get(payload, "parent_payload_id", PyStr(""))
        configs1 == IF payload_type = PyStr("config")
                    THEN SetItem(st.configs, sha256, payload) ELSE st.configs
        h1 == SetItem(st.hierarchy, sha256, process_payload_entry(payload))
        key == LinkedParentKey(payload)
    IN  IF st.exc # None THEN st
        ELSE IF payload_type \notin {PyStr(""), PyStr("memdump")} /\ sha256 # root_sha256
        THEN IF parent = PyStr(root_sha256)
             THEN [hierarchy |-> AppendChild(h1, "root", sha256),
                   configs |-> configs1, exc |-> None]
             ELSE IF IsStr(parent) /\ HasKey(h1, parent.s)
             THEN IF IsStr(key) /\ HasKey(h1, key.s)
                  THEN [hierarchy |-> AppendChild(h1, key.s, sha256),
                        configs |-> configs1, exc |-> None]
                  ELSE [hierarchy |-> h1, configs |-> configs1, exc |-> Raised("KeyError")]
             ELSE [hierarchy |-> h1, configs |-> configs1, exc |-> None]
        ELSE st

RECURSIVE BuildLoop(_, _, _, _)
BuildLoop(st, pd, i, root_sha256) ==
    IF i > Len(pd.kv) THEN st
    ELSE BuildLoop(BuildStep(st, pd.kv[i][1], pd.kv[i][2], root_sha256), pd, i + 1, root_sha256)

\* _build_hierarchy_from_payload_dict, with self.configs as it was before
\* the call: the hierarchy returned, self.configs after it, the exception.
build_hierarchy_from_payload_dict(pd, configs) ==
    LET r == RootIndex(pd)
        root_payload == IF r = 0 THEN None ELSE pd.kv[r][2]
        root_sha256 == pd.kv[r][1]
        root == SetItem(process_payload_entry(root_payload), "sha256", PyStr(root_sha256))
    IN  IF ~Truthy(root_payload)
        THEN [hierarchy |-> EmptyDict, configs |-> configs, exc |-> None]
        ELSE BuildLoop([hierarchy |-> SetItem(EmptyDict, "root", root),
                        configs |-> configs, exc |-> None], pd, 1, root_sha256)

\* Inputs of the hierarchy runs
MaxPayloads == 3

HashNames == <<"aa", "bb", "cc", "dd", "ee", "ff">>

PayloadTypes == {"exe", "config", "memdump", ""}

\* parent_payload_id of payload i of n: absent, empty, the hash of another
\* payload (iterated earlier or later), an unknown hash
ParentChoices(n, i) == {"absent", "", "9999"} \cup {HashNames[j] : j \in (1..n) \ {i}}

MakePayload(parent, ptype) ==
    PyDict((IF parent = "absent" THEN <<>> ELSE << <<"parent_payload_id", PyStr(parent)>> >>)
           \o << <<"payload_type", PyStr(ptype)>>,
                 <<"created_by", PyStr("karton-unpacker")>>,
                 <<"attributes", PyDict(<< <<"type", PyStr(ptype)>> >>)>> >>)

MakePayloadDict(n, par, typ) ==
    PyDict([i \in 1..n |-> <<HashNames[i], MakePayload(par[i], typ[i])>>])

InitHierarchy ==
    /\ \E n \in 1..MaxPayloads :
          \E par \in [1..n -> ParentChoices(n, 0)], typ \in [1..n -> PayloadTypes] :
              /\ \A i \in 1..n : par[i] \in ParentChoices(n, i)
              /\ payload_dict = MakePayloadDict(n, par, typ)
    /\ hier_ret = Pending
    /\ hier_pc = "call"
    /\ EnrichIdle /\ TriageIdle /\ PipelineIdle /\ OthersIdle

\* ret_dict["hierarchy"] = self._build_hierarchy_from_payload_dict(payloads)
BuildHierarchyCall ==
    /\ hier_pc = "call"
    /\ hier_ret' = build_hierarchy_from_payload_dict(payload_dict, EmptyDict)
    /\ hier_pc' = "returned"
    /\ UNCHANGED payload_dict
    /\ UNCHANGED <<enr_vars, triage_vars, pipe_vars, other_vars>>

----------------------------------------------------------------------------
(* KartonPreprocessor: triage detail *)

\* A string of `n` characters, the character c repeated; the other strings
\* of the model are short texts whose length is not tracked.
RepStr(c, n) == [t |-> "str", s |-> c, rep |-> n]
IsRepStr(v) == v.t = "str" /\ "rep" \in DOMAIN v

IocMaxLen == 500
MaxKeptIndicators == 10

\* len(indicator.get("ioc", "")) > 500, and indicator["ioc"][:500]
TruncateIoc(indicator) ==
    LET ioc == Get(indicator, "ioc", PyStr(""))
    IN  IF IsRepStr(ioc) /\ ioc.rep > IocMaxLen
        THEN SetItem(indicator, "ioc", RepStr(ioc.s, IocMaxLen))
        ELSE indicator

\* The body of the loop of _cleanup_triage_signatures for one signature:
\* the cleaned signature, or the exception raised.
cleanup_signature(signature) ==
    LET indicators == Get(signature, "indicators", PyList(<<EmptyDict>>))
        emptied == SetItem(signature, "indicators", EmptyList)
    IN  IF Len(indicators.items) > MaxKeptIndicators THEN emptied
        ELSE IF indicators.items = <<>> THEN Raised("IndexError")
        ELSE IF HasKey(indicators.items[1], "yara_rule") THEN emptied
        ELSE SetItem(signature, "indicators",
                     PyList([i \in 1..Len(indicators.items) |->
                                TruncateIoc(indicators.items[i])]))

\* _cleanup_triage_signatures
cleanup_triage_signatures(signatures) ==
    IF \E i \in 1..Len(signatures.items) : IsRaised(cleanup_signature(signatures.items[i]))
    THEN Raised("IndexError")
    ELSE PyList([i \in 1..Len(signatures.items) |-> cleanup_signature(signatures.items[i])])

\* The strings of the model in which "in-addr.arpa" occurs.
InAddrArpaStrings == {"10.0.0.1.in-addr.arpa", "in-addr.arpa.evil.com"}
ContainsInAddrArpa(v) == IsStr(v) /\ v.s \in InAddrArpaStrings

\* for x in iocs.get(kind, []): if x not in lst [and not "in-addr.arpa" in x]: lst.append(x)
RECURSIVE AddIocsNoMembershipTest(_, _, _, _)
AddIocsNoMembershipTest(lst, found, i, skipArpa) ==
    IF i > Len(found) THEN lst
    ELSE AddIocsNoMembershipTest(IF ~(skipArpa /\ ContainsInAddrArpa(found[i]))
                                 THEN Append(lst, found[i]) ELSE lst,
                                 found, i + 1, skipArpa)
RECURSIVE AddIocs(_, _, _, _)
AddIocs(lst, found, i, skipArpa) ==
    IF i > Len(found) THEN lst
    ELSE AddIocs(IF found[i] \notin Range(lst) /\ ~(skipArpa /\ ContainsInAddrArpa(found[i]))
                 THEN Append(lst, found[i]) ELSE lst,
                 found, i + 1, skipArpa)

\* One iteration of the loop over targets, on the four lists.
AddTarget(acc, target) ==
    LET iocs == Get(target, "iocs", EmptyDict)
    IN  [domains |-> AddIocs(acc.domains, Get(iocs, "domains", EmptyList).items, 1, TRUE),
         ips |-> AddIocs(acc.ips, Get(iocs, "ips", EmptyList).items, 1, FALSE),
         urls |-> AddIocs(acc.urls, Get(iocs, "urls", EmptyList).items, 1, FALSE),
         emails |-> AddIocs(acc.emails, Get(iocs, "emails", EmptyList).items, 1, FALSE)]

RECURSIVE TargetsLoop(_, _, _)
TargetsLoop(acc, targets, i) ==
    IF i > Len(targets) THEN acc
    ELSE TargetsLoop(AddTarget(acc, targets[i]), targets, i + 1)

CollectIocs(targets) ==
    LET acc == TargetsLoop([domains |-> <<>>, ips |-> <<>>, urls |-> <<>>, emails |-> <<>>],
                           targets.items, 1)
    IN  PyDict(<< <<"ips", PyList(acc.ips)>>, <<"urls", PyList(acc.urls)>>,
                  <<"domains", PyList(acc.domains)>>, <<"emails", PyList(acc.emails)>> >>)

\* A retrieval that raises where the triage API answers anything but 200
RetrieveTriageRaisesOnFailure(ttype, resp) ==
    LET json == resp.json
        sample == Get(json, "sample", EmptyDict)
        base == PyDict(<< <<"analysis", Get(json, "analysis", EmptyDict)>>,
                          <<"sha256", Get(sample, "sha256", PyStr(""))>>,
                          <<"timestamp", Get(sample, "completed", PyStr(""))>>,
                          <<"id", Get(sample, "id", PyStr(""))>> >>)
        cleaned == cleanup_triage_signatures(Get(json, "signatures", EmptyList))
    IN  IF ttype \notin {"overview", "report"} THEN EmptyDict
        ELSE IF resp.status_code # 200 THEN Raised("HTTPError")
        ELSE IF ttype = "report"
             THEN IF IsRaised(cleaned) THEN cleaned
                  ELSE SetItem(base, "signatures", cleaned)
             ELSE SetItem(base, "iocs", CollectIocs(Get(json, "targets", EmptyList)))

\* _retrieve_triage_data, given the answer `resp` of the triage API to its
\* request: the dict returned, or the exception raised.
retrieve_triage_data(ttype, resp) ==
    LET json == resp.json
        sample == Get(json, "sample", EmptyDict)
        base == PyDict(<< <<"analysis", Get(json, "analysis", EmptyDict)>>,
                          <<"sha256", Get(sample, "sha256", PyStr(""))>>,
                          <<"timestamp", Get(sample, "completed", PyStr(""))>>,
                          <<"id", Get(sample, "id", PyStr(""))>> >>)
        cleaned == cleanup_triage_signatures(Get(json, "signatures", EmptyList))
    IN  IF ttype \notin {"overview", "report"} THEN EmptyDict
        ELSE IF resp.status_code # 200 THEN EmptyDict
        ELSE IF ttype = "report"
             THEN IF IsRaised(cleaned) THEN cleaned
                  ELSE SetItem(base, "signatures", cleaned)
             ELSE SetItem(base, "iocs", CollectIocs(Get(json, "targets", EmptyList)))

----------------------------------------------------------------------------
(* KartonPreprocessor: configs, result records, process *)

\* ret_dict.update(body): the merged dict, or the exception that update
\* raises. A dict is merged key by key; a list is read as (key, value) pairs;
\* a string is read character by character, so only the empty one passes.
RECURSIVE MergePairs(_, _, _)
MergePairs(d, kv, i) ==
    IF i > Len(kv) THEN d ELSE MergePairs(SetItem(d, kv[i][1], kv[i][2]), kv, i + 1)

IsPair(v) == IsList(v) /\ Len(v.items) = 2 /\ IsStr(v.items[1])

DictUpdate(d, body) ==
    CASE body.t = "dict" -> MergePairs(d, body.kv, 1)
      [] body.t = "list" ->
            IF \A i \in 1..Len(body.items) : IsPair(body.items[i])
            THEN MergePairs(d, [i \in 1..Len(body.items) |->
                                  <<body.items[i].items[1].s, body.items[i].items[2]>>], 1)
            ELSE Raised("TypeError")
      [] body.t = "str" -> IF body.s = "" THEN d ELSE Raised("ValueError")
      [] OTHER -> Raised("TypeError")

\* _process_config_payload
process_config_payload(config_payload) ==
    LET attributes == Get(config_payload, "attributes", EmptyDict)
        ret_dict == PyDict(<< <<"family", Get(attributes, "family", PyStr(""))>>,
                              <<"type", Get(attributes, "type", PyStr(""))>>,
                              <<"vetted", Get(attributes, "vetted", PyStr("false"))>>,
                              <<"created_by", Get(config_payload, "created_by", PyStr(""))>> >>)
        mem_ret_dict == SetItem(ret_dict, "data", Get(config_payload, "data", PyStr("")))
        updated == DictUpdate(ret_dict, Get(config_payload, "data", EmptyDict))
    IN  IF IsRaised(updated) THEN mem_ret_dict ELSE updated

\* result_entry.get("created_by", "").replace("karton-", ""), on the
\* producer names of the model
StripKarton(v) ==
    CASE v = PyStr("karton-triage") -> PyStr("triage")
      [] v = PyStr("karton-unpacker") -> PyStr("unpacker")
      [] OTHER -> v

\* _process_result_entry, the triage API answering as `api` says: the entry
\* returned, the ids it appended to self.triage_id_list, the requests made.
process_result_entry(result_entry, api) ==
    LET source == StripKarton(Get(result_entry, "created_by", PyStr("")))
        return_entry ==
            PyDict(<< <<"payload_type", Get(result_entry, "payload_type", PyStr(""))>>,
                      <<"type", source>>,
                      <<"data", EmptyDict>>,
                      <<"payload_id", Get(result_entry, "payload_id", PyStr(""))>>,
                      <<"timestamp", Get(result_entry, "created_at", PyStr(""))>> >>)
        submission_id == Get(Get(result_entry, "data", EmptyDict), "submission_id", PyStr(""))
    IN  IF source = PyStr("triage")
        THEN IF Truthy(submission_id)
             THEN [entry |-> SetItem(return_entry, "data",
                                     retrieve_triage_data("overview",
                                                          api[<<submission_id.s, "overview">>])),
                   ids |-> <<submission_id.s>>,
                   requests |-> << <<submission_id.s, "overview">> >>]
             ELSE [entry |-> return_entry, ids |-> <<>>, requests |-> <<>>]
        ELSE [entry |-> SetItem(return_entry, "data", Get(result_entry, "data", EmptyDict)),
              ids |-> <<>>, requests |-> <<>>]

\* _process_result_list
RECURSIVE process_result_list(_, _, _)
process_result_list(result_entries, i, api) ==
    IF i > Len(result_entries) THEN [entries |-> <<>>, ids |-> <<>>, requests |-> <<>>]
    ELSE The({[entries |-> <<one.entry>> \o rest.entries,
               ids |-> one.ids \o rest.ids,
               requests |-> one.requests \o rest.requests] :
                 one \in {process_result_entry(result_entries[i], api)},
                 rest \in {process_result_list(result_entries, i + 1, api)}})

\* _process_payload_results
RECURSIVE process_payload_results(_, _, _)
process_payload_results(payload_results, i, api) ==
    IF i > Len(payload_results.kv)
    THEN [results |-> EmptyDict, ids |-> <<>>, requests |-> <<>>]
    ELSE LET key == payload_results.kv[i][1]
             lst == payload_results.kv[i][2]
         IN  IF Truthy(lst)
             THEN The({[results |-> PyDict(<< <<key, PyList(one.entries)>> >>
                                             \o rest.results.kv),
                        ids |-> one.ids \o rest.ids,
                        requests |-> one.requests \o rest.requests] :
                          one \in {process_result_list(lst.items, 1, api)},
                          rest \in {process_payload_results(payload_results, i + 1, api)}})
             ELSE process_payload_results(payload_results, i + 1, api)

\* for id in self.triage_id_list: ret_dict["triage_results"][id] = ...
RECURSIVE ReportLoop(_, _, _, _)
ReportLoop(st, ids, i, api) ==
    IF i > Len(ids) \/ st.exc # None THEN st
    ELSE LET asked == Append(st.requests, <<ids[i], "report">>)
         IN  The({ReportLoop(next, ids, i + 1, api) :
                    next \in {IF IsRaised(got)
                              THEN [triage_results |-> st.triage_results,
                                    requests |-> asked, exc |-> got]
                              ELSE [triage_results |-> SetItem(st.triage_results, ids[i], got),
                                    requests |-> asked, exc |-> None] :
                                 got \in {retrieve_triage_data("report",
                                                               api[<<ids[i], "report">>])}}})

\* for sha256, config in self.configs.items(): ret_dict["configs"][sha256] = ...
ConfigsLoop(configs) ==
    PyDict([i \in 1..Len(configs.kv) |->
               <<configs.kv[i][1], process_config_payload(configs.kv[i][2])>>])

\* KartonPreprocessor.process, the triage API answering as `api` says: the
\* dict returned, the exception that leaves the call, the requests made to
\* the triage API in order.
\* The part of process behind the two early returns: hierarchy, report
\* details, configs
KartonProcessRest(res, hier, api) ==
    IF hier.exc # None
    THEN [ret |-> None, exc |-> hier.exc, requests |-> res.requests]
    ELSE The({IF rep.exc # None
              THEN [ret |-> None, exc |-> rep.exc, requests |-> rep.requests]
              ELSE [ret |-> PyDict(<< <<"hierarchy", hier.hierarchy>>,
                                      <<"results", res.results>>,
                                      <<"configs", ConfigsLoop(hier.configs)>>,
                                      <<"triage_results", rep.triage_results>> >>),
                    exc |-> None, requests |-> rep.requests] :
                rep \in {ReportLoop([triage_results |-> EmptyDict,
                                     requests |-> res.requests, exc |-> None],
                                    res.ids, 1, api)}})

KartonProcess(raw, api) ==
    LET payload_results == Get(raw, "payload_results", None)
        payloads == Get(raw, "payloads", None)
    IN  IF ~Truthy(payload_results)
        THEN [ret |-> EmptyDict, exc |-> None, requests |-> <<>>]
        ELSE The({IF ~Truthy(payloads)
                  THEN [ret |-> EmptyDict, exc |-> None, requests |-> res.requests]
                  ELSE The({KartonProcessRest(res, hier, api) :
                              hier \in {build_hierarchy_from_payload_dict(payloads,
                                                                          EmptyDict)}}) :
                    res \in {process_payload_results(payload_results, 1, api)}})

----------------------------------------------------------------------------
(* NLPreprocessor *)

\* A text as pieces; the empty text has no piece.
Txt(s) == IF s = "" THEN <<>> ELSE <<s>>

IsContainer(v) == IsDict(v) \/ IsList(v)
PyLen(v) == IF IsDict(v) THEN Len(v.kv) ELSE Len(v.items)

\* str(v) and repr(v) as they appear in an f-string
RECURSIVE PyRepr(_)
RECURSIVE ReprItems(_, _)
RECURSIVE ReprPairs(_, _)
PyRepr(v) ==
    CASE v.t = "str" ->
            IF IsRepStr(v) THEN <<"'", v.s, "{x", ToString(v.rep), "}", "'">>
            ELSE <<"'">> \o Txt(v.s) \o <<"'">>
      [] v.t = "int" -> <<ToString(v.n)>>
      [] v.t = "none" -> <<"None">>
      [] v.t = "list" -> <<"[">> \o ReprItems(v.items, 1) \o <<"]">>
      [] v.t = "dict" -> <<"{">> \o ReprPairs(v.kv, 1) \o <<"}">>
ReprItems(items, i) ==
    IF i > Len(items) THEN <<>>
    ELSE PyRepr(items[i]) \o (IF i < Len(items) THEN <<", ">> ELSE <<>>)
             \o ReprItems(items, i + 1)
ReprPairs(kv, i) ==
    IF i > Len(kv) THEN <<>>
    ELSE <<"'", kv[i][1], "': ">> \o PyRepr(kv[i][2])
             \o (IF i < Len(kv) THEN <<", ">> ELSE <<>>) \o ReprPairs(kv, i + 1)

PyFormat(v) ==
    IF v.t = "str"
    THEN IF IsRepStr(v) THEN <<v.s, "{x", ToString(v.rep), "}">> ELSE Txt(v.s)
    ELSE PyRepr(v)

\* self.headline_keywords, in the order of the dict
headline_keywords == <<"sha256", "label", "name", "description">>

HeadlineTemplate(key, value) ==
    IF key = "sha256" THEN <<"#sha256 ">> \o PyFormat(value) \o <<" ">>
    ELSE PyFormat(value)

\* str.replace("<replace>", data[key]) raises TypeError when data[key] is
\* no string: whether _search_for_headline raises on d
search_for_headline_raises(d) ==
    LET found == {i \in 1..Len(headline_keywords) : IsDict(d) /\ HasKey(d, headline_keywords[i])}
        first == CHOOSE i \in found : \A j \in found : i <= j
    IN  found # {} /\ ~IsStr(Get(d, headline_keywords[first], None))

\* _search_for_headline, where it does not raise
search_for_headline(d) ==
    LET found == {i \in 1..Len(headline_keywords) : IsDict(d) /\ HasKey(d, headline_keywords[i])}
        first == CHOOSE i \in found : \A j \in found : i <= j
        headline == IF found = {} THEN <<>>
                    ELSE HeadlineTemplate(headline_keywords[first],
                                          Get(d, headline_keywords[first], None))
    IN  IF headline = <<>> THEN <<"with data ">> ELSE headline

\* _build_headline; NoKey stands for key=None
NoKey == "<None>"

build_headline(d, key) ==
    CASE key = NoKey ->
            IF IsDict(d) THEN <<"with ">>
            ELSE IF IsList(d) THEN <<"containing ">>
            ELSE <<"with value ">>
      [] key = "signatures" -> <<"has the signature ">> \o search_for_headline(d) \o <<" ">>
      [] key = "indicators" -> <<"with the indicator ">> \o search_for_headline(d) \o <<" ">>
      [] key = "analysis" -> <<"has an analysis ">>
      [] OTHER -> <<"with ", key, " ">>

\* "with data" in headline
ContainsWithData(headline) ==
    \/ \E i \in 1..Len(headline) : headline[i] = "with data "
    \/ \E i \in 1..(Len(headline) - 1) : headline[i] = "with " /\ headline[i + 1] = "data"

\* A leaf test that does not look into a container of one element
SingletonAlwaysLeaf(leaf_candidate) ==
    IF IsDict(leaf_candidate)
    THEN \A i \in 1..Len(leaf_candidate.kv) :
            IsContainer(leaf_candidate.kv[i][2]) => PyLen(leaf_candidate.kv[i][2]) <= 1
    ELSE IF IsList(leaf_candidate)
    THEN \/ Len(leaf_candidate.items) <= 1
         \/ \A i \in 1..Len(leaf_candidate.items) : ~IsContainer(leaf_candidate.items[i])
    ELSE TRUE

\* _check_for_leaf
RECURSIVE check_for_leaf(_)
check_for_leaf(leaf_candidate) ==
    IF IsDict(leaf_candidate)
    THEN \A i \in 1..Len(leaf_candidate.kv) :
            LET value == leaf_candidate.kv[i][2]
            IN  IsContainer(value) => ~(PyLen(value) > 1 \/ ~check_for_leaf(value))
    ELSE IF IsList(leaf_candidate)
    THEN IF Len(leaf_candidate.items) = 1 THEN check_for_leaf(leaf_candidate.items[1])
         ELSE IF Len(leaf_candidate.items) > 1
         THEN \A i \in 1..Len(leaf_candidate.items) : ~IsContainer(leaf_candidate.items[i])
         ELSE TRUE
    ELSE TRUE

\* _handle_leaf
RECURSIVE LeafPairs(_, _)
LeafPairs(kv, i) ==
    IF i > Len(kv) THEN <<>>
    ELSE <<kv[i][1], ": ">> \o PyFormat(kv[i][2]) \o <<", ">> \o LeafPairs(kv, i + 1)

RECURSIVE LeafEntries(_, _)
LeafEntries(items, i) ==
    IF i > Len(items) THEN <<>>
    ELSE PyFormat(items[i]) \o <<", ">> \o LeafEntries(items, i + 1)

handle_leaf(leaf) ==
    IF IsDict(leaf) THEN LeafPairs(leaf.kv, 1)
    ELSE IF IsList(leaf) THEN LeafEntries(leaf.items, 1)
    ELSE PyFormat(leaf)

\* _recursive_naturalize and its three loops
RECURSIVE recursive_naturalize(_, _)
RECURSIVE NatSpecialLoop(_, _, _, _)
RECURSIVE NatDictLoop(_, _, _)
RECURSIVE NatListLoop(_, _, _)

IsSpecialCase(value) ==
    IsList(value) /\ ~check_for_leaf(value) /\ IsDict(value.items[1])

NatSpecialLoop(items, i, key, prefix) ==
    IF i > Len(items) THEN <<>>
    ELSE LET built == build_headline(items[i], key)
             headline == IF ContainsWithData(built) THEN <<"with ">> ELSE built
         IN  recursive_naturalize(items[i], prefix \o headline)
                 \o NatSpecialLoop(items, i + 1, key, prefix)

NatDictLoop(kv, i, prefix) ==
    IF i > Len(kv) THEN <<>>
    ELSE (IF IsSpecialCase(kv[i][2])
          THEN NatSpecialLoop(kv[i][2].items, 1, kv[i][1], prefix)
          ELSE recursive_naturalize(kv[i][2], prefix \o build_headline(kv[i][2], kv[i][1])))
         \o NatDictLoop(kv, i + 1, prefix)

NatListLoop(items, i, prefix) ==
    IF i > Len(items) THEN <<>>
    ELSE recursive_naturalize(items[i], prefix) \o NatListLoop(items, i + 1, prefix)

recursive_naturalize(d, prefix) ==
    IF check_for_leaf(d) THEN <<prefix \o handle_leaf(d)>>
    ELSE IF IsDict(d) THEN NatDictLoop(d.kv, 1, prefix)
    ELSE IF IsList(d) THEN NatListLoop(d.items, 1, prefix)
    ELSE <<>>

\* naturalize_configs
RECURSIVE naturalize_configs_from(_, _)
naturalize_configs_from(kv, i) ==
    IF i > Len(kv) THEN <<>>
    ELSE recursive_naturalize(kv[i][2], <<"#sha256 ", kv[i][1], " is a config ">>)
             \o naturalize_configs_from(kv, i + 1)

naturalize_configs(d) == naturalize_configs_from(d.kv, 1)

\* naturalize_results
RECURSIVE naturalize_result_list(_, _, _)
naturalize_result_list(key, items, i) ==
    IF i > Len(items) THEN <<>>
    ELSE recursive_naturalize(items[i], <<"#sha256 ", key, " is a result ">>)
             \o naturalize_result_list(key, items, i + 1)

RECURSIVE naturalize_results_from(_, _)
naturalize_results_from(kv, i) ==
    IF i > Len(kv) THEN <<>>
    ELSE naturalize_result_list(kv[i][1], kv[i][2].items, 1)
             \o naturalize_results_from(kv, i + 1)

naturalize_results(d) == naturalize_results_from(d.kv, 1)

\* naturalize_triage_results
RECURSIVE naturalize_triage_from(_, _)
naturalize_triage_from(kv, i) ==
    IF i > Len(kv) THEN <<>>
    ELSE recursive_naturalize(kv[i][2], search_for_headline(kv[i][2]))
             \o naturalize_triage_from(kv, i + 1)

naturalize_triage_results(d) == naturalize_triage_from(d.kv, 1)

\* _count_and_classify_children_for_hierarchy: type_count as (type, count)
\* pairs in order of first insertion
RECURSIVE CountTypes(_, _, _, _)
CountTypes(type_count, hierarchy, children, i) ==
    IF i > Len(children) THEN type_count
    ELSE LET child_key == children[i].s
             child_type == Get(Get(hierarchy, child_key, EmptyDict), "type",
                               PyStr("type not found"))
             at == {k \in 1..Len(type_count) : type_count[k][1] = child_type}
             counted ==
                 IF at = {} THEN Append(type_count, <<child_type, 1>>)
                 ELSE [k \in 1..Len(type_count) |->
                          IF k \in at THEN <<child_type, type_count[k][2] + 1>>
                          ELSE type_count[k]]
         IN  CountTypes(IF HasKey(hierarchy, child_key) THEN counted ELSE type_count,
                        hierarchy, children, i + 1)

\* sorted(type_count.items(), key=lambda x: x[1], reverse=True): a stable
\* sort, the largest count first
RECURSIVE SortedByCountDesc(_)
SortedByCountDesc(pairs) ==
    IF pairs = <<>> THEN <<>>
    ELSE LET top == CHOOSE k \in 1..Len(pairs) :
                        /\ \A j \in 1..Len(pairs) : pairs[j][2] <= pairs[k][2]
                        /\ \A j \in 1..(k - 1) : pairs[j][2] < pairs[k][2]
         IN  <<pairs[top]>>
                 \o SortedByCountDesc([k \in 1..(Len(pairs) - 1) |->
                                          IF k < top THEN pairs[k] ELSE pairs[k + 1]])

RECURSIVE TypeCountText(_, _)
TypeCountText(ordered, i) ==
    IF i > Len(ordered) THEN <<>>
    ELSE PyFormat(ordered[i][1]) \o <<": ", ToString(ordered[i][2]), ", ">>
             \o TypeCountText(ordered, i + 1)

count_and_classify_children_for_hierarchy(d, target) ==
    LET children == Get(Get(d, target, EmptyDict), "children", EmptyList)
    IN  IF ~HasKey(d, target) THEN <<>>
        ELSE IF ~Truthy(children) THEN <<>>
        ELSE TypeCountText(SortedByCountDesc(CountTypes(<<>>, d, children.items, 1)), 1)

\* naturalize_hierarchy
RECURSIVE naturalize_hierarchy_from(_, _)
naturalize_hierarchy_from(d, i) ==
    IF i > Len(d.kv) THEN <<>>
    ELSE (IF d.kv[i][1] = "root" THEN <<>>
          ELSE << <<"The ">> \o PyFormat(Get(d.kv[i][2], "type", PyStr("type not found")))
                   \o <<" in the hierarchy with the sha256 hash ", d.kv[i][1], " has ",
                        ToString(PyLen(Get(d.kv[i][2], "children", EmptyList))),
                        " children, ">>
                   \o count_and_classify_children_for_hierarchy(d, d.kv[i][1]) >>)
         \o naturalize_hierarchy_from(d, i + 1)

naturalize_hierarchy(d) ==
    LET root_dict == Get(d, "root", EmptyDict)
    IN  (IF Truthy(root_dict)
         THEN << <<"The root of the hierarchy is: The ">>
                    \o PyFormat(Get(root_dict, "type", PyStr("type not found")))
                    \o <<" with the sha256 hash ">>
                    \o PyFormat(Get(root_dict, "sha256", PyStr("sha256 not found"))),
                 <<"The root of the hierarchy has ",
                   ToString(PyLen(Get(root_dict, "children", EmptyList))), " children, ">>
                    \o count_and_classify_children_for_hierarchy(d, "root") >>
         ELSE <<>>)
        \o naturalize_hierarchy_from(d, 1)

\* _build_headline calls _search_for_headline for the keys of
\* headline_key_keywords
build_headline_raises(d, key) ==
    key \in {"signatures", "indicators", "analysis"} /\ search_for_headline_raises(d)

\* Whether _recursive_naturalize raises TypeError on d
RECURSIVE recursive_naturalize_raises(_)
recursive_naturalize_raises(d) ==
    IF check_for_leaf(d) THEN FALSE
    ELSE IF IsDict(d)
    THEN \E i \in 1..Len(d.kv) :
            LET key == d.kv[i][1]
                value == d.kv[i][2]
            IN  IF IsSpecialCase(value)
                THEN \E k \in 1..Len(value.items) :
                        \/ build_headline_raises(value.items[k], key)
                        \/ recursive_naturalize_raises(value.items[k])
                ELSE build_headline_raises(value, key) \/ recursive_naturalize_raises(value)
    ELSE IF IsList(d)
    THEN \E k \in 1..Len(d.items) : recursive_naturalize_raises(d.items[k])
    ELSE FALSE

naturalize_configs_raises(d) ==
    \E i \in 1..Len(d.kv) : recursive_naturalize_raises(d.kv[i][2])

naturalize_results_raises(d) ==
    \E i \in 1..Len(d.kv) :
        \E k \in 1..Len(d.kv[i][2].items) : recursive_naturalize_raises(d.kv[i][2].items[k])

naturalize_triage_results_raises(d) ==
    \E i \in 1..Len(d.kv) :
        search_for_headline_raises(d.kv[i][2]) \/ recursive_naturalize_raises(d.kv[i][2])

\* Whether a TypeError leaves naturalize: one is raised in a part that is
\* reached before the first missing key
naturalize_raises(d) ==
    /\ HasKey(d, "configs")
    /\ \/ naturalize_configs_raises(Get(d, "configs", None))
       \/ /\ HasKey(d, "hierarchy") /\ HasKey(d, "results")
          /\ \/ naturalize_results_raises(Get(d, "results", None))
             \/ /\ HasKey(d, "triage_results")
                /\ naturalize_triage_results_raises(Get(d, "triage_results", None))

\* naturalize: the four parts in the order of the try block; the first
\* missing key ends the block (KeyError is caught) with what was collected.
naturalize(d) ==
    IF ~HasKey(d, "configs") THEN <<>>
    ELSE IF ~HasKey(d, "hierarchy") THEN naturalize_configs(Get(d, "configs", None))
    ELSE IF ~HasKey(d, "results")
    THEN naturalize_configs(Get(d, "configs", None))
             \o naturalize_hierarchy(Get(d, "hierarchy", None))
    ELSE IF ~HasKey(d, "triage_results")
    THEN naturalize_configs(Get(d, "configs", None))
             \o naturalize_hierarchy(Get(d, "hierarchy", None))
             \o naturalize_results(Get(d, "results", None))
    ELSE naturalize_configs(Get(d, "configs", None))
             \o naturalize_hierarchy(Get(d, "hierarchy", None))
             \o naturalize_results(Get(d, "results", None))
             \o naturalize_triage_results(Get(d, "triage_results", None))

\* The call of naturalize: the list returned, or the TypeError that leaves it
naturalize_call(d) ==
    IF naturalize_raises(d) THEN Raised("TypeError") ELSE PyList(naturalize(d))

\* Inputs of the triage runs
MaxTargets == 2

Absent == [t |-> "absent"]

StrList(seq) == PyList([i \in 1..Len(seq) |-> PyStr(seq[i])])

DomainLists ==
    {Absent, StrList(<<>>), StrList(<<"evil.com", "10.0.0.1.in-addr.arpa">>),
     StrList(<<"bad.org", "evil.com", "bad.org">>),
     StrList(<<"10.0.0.1.in-addr.arpa", "in-addr.arpa.evil.com", "evil.com">>)}
IpLists == {Absent, StrList(<<"10.0.0.1", "10.0.0.2">>), StrList(<<"10.0.0.2", "10.0.0.1", "10.0.0.2">>)}
UrlLists == {Absent, StrList(<<"http://evil.com/a", "http://evil.com/a">>)}
EmailLists == {StrList(<<>>), StrList(<<"a@evil.com">>)}

\* A dict of the entries whose value is present.
RECURSIVE DictOfPresent(_)
DictOfPresent(pairs) ==
    IF pairs = <<>> THEN <<>>
    ELSE (IF Head(pairs)[2] = Absent THEN <<>> ELSE <<Head(pairs)>>) \o DictOfPresent(Tail(pairs))

MakeTarget(d, i, u, e) ==
    PyDict(<< <<"iocs", PyDict(DictOfPresent(<< <<"domains", d>>, <<"ips", i>>,
                                                <<"urls", u>>, <<"emails", e>> >>))>> >>)

Targets == {MakeTarget(d, i, u, e) :
               d \in DomainLists, i \in IpLists, u \in UrlLists, e \in EmailLists}

Indicator(ioc) == PyDict(<< <<"ioc", ioc>> >>)

SignatureLists ==
    {PyList(<<>>),
     PyList(<< PyDict(<< <<"name", PyStr("persistence")>>,
                         <<"indicators", PyList(<<Indicator(PyStr("reg.exe")),
                                                  Indicator(RepStr("A", 501))>>)>> >>) >>),
     PyList(<< PyDict(<< <<"name", PyStr("yara")>>,
                         <<"indicators", PyList(<<PyDict(<< <<"yara_rule", PyStr("r1")>> >>)>>)>> >>) >>),
     PyList(<< PyDict(<< <<"name", PyStr("many")>>,
                         <<"indicators", PyList([i \in 1..(MaxKeptIndicators + 1) |->
                                                    Indicator(PyStr("reg.exe"))])>> >>),
               PyDict(<< <<"name", PyStr("ten")>>,
                         <<"indicators", PyList([i \in 1..MaxKeptIndicators |->
                                                    Indicator(RepStr("A", IocMaxLen))])>> >>) >>),
     PyList(<< PyDict(<< <<"name", PyStr("no indicators")>> >>) >>),
     PyList(<< PyDict(<< <<"name", PyStr("persistence")>>,
                         <<"indicators", PyList(<<Indicator(PyStr("reg.exe"))>>)>> >>),
               PyDict(<< <<"name", PyStr("empty indicators")>>,
                         <<"indicators", EmptyList>> >>) >>)}

MakeTriageJson(targets, signatures) ==
    PyDict(<< <<"sample", PyDict(<< <<"sha256", PyStr("deadbeef")>>,
                                    <<"completed", PyStr("t1")>>,
                                    <<"id", PyStr("abc")>> >>)>>,
              <<"analysis", EmptyDict>>,
              <<"signatures", signatures>>,
              <<"targets", PyList(targets)>> >>)

StatusCodes == {200, 404, 500}

InitTriage ==
    /\ \E status \in StatusCodes :
          \/ /\ triage_type = "overview"
             /\ \E n \in 0..MaxTargets : \E targets \in [1..n -> Targets] :
                   response = [status_code |-> status,
                               json |-> MakeTriageJson(targets, EmptyList)]
          \/ /\ triage_type = "report"
             /\ \E sigs \in SignatureLists :
                   response = [status_code |-> status, json |-> MakeTriageJson(<<>>, sigs)]
    /\ triage_ret = Pending
    /\ triage_pc = "call"
    /\ EnrichIdle /\ HierIdle /\ PipelineIdle /\ OthersIdle

\* self._retrieve_triage_data(submission_id) and
\* self._retrieve_triage_data(id, "report")
RetrieveTriageCall ==
    /\ triage_pc = "call"
    /\ triage_ret' = retrieve_triage_data(triage_type, response)
    /\ triage_pc' = "returned"
    /\ UNCHANGED <<triage_type, response>>
    /\ UNCHANGED <<enr_vars, hier_vars, pipe_vars, other_vars>>

NextTriage == RetrieveTriageCall

SpecTriage == InitTriage /\ [][NextTriage]_vars

----------------------------------------------------------------------------
\* Inputs of the enrichment runs
MaxSentences == 2

T1059_001 == <<"T", "1", "0", "5", "9", ".", "0", "0", "1">>
T1003 == <<"T", "1", "0", "0", "3">>
GroupText001 == <<".", "0", "0", "1">>

SentencePool ==
    { <<"uses ">> \o T1059_001 \o <<" to execute commands">>,
      <<"dumps credentials via ">> \o T1003,
      T1003 \o <<" and ">> \o T1059_001 \o <<" and ">> \o T1003,
      <<"T", "1", "0", "5", "9", ".", "0", "0", " is cut short">>,
      <<"with value ", "no technique">> }

SentenceLists == UNION {[1..n -> SentencePool] : n \in 0..MaxSentences}

FullTable ==
    (T1059_001 :> [name |-> "PowerShell", description |-> "abuse of PowerShell"])
    @@ (T1003 :> [name |-> "OS Credential Dumping", description |-> "dumping credentials"])
    @@ (GroupText001 :> [name |-> "suffix entry", description |-> "keyed by a suffix"])

Tables == {[k \in K |-> FullTable[k]] : K \in SUBSET (DOMAIN FullTable)}

InitEnrich ==
    /\ data \in SentenceLists
    /\ enr_arg = data
    /\ ttp_context \in Tables
    /\ enr_ret = Pending
    /\ enr_pc = "call"
    /\ HierIdle /\ TriageIdle /\ PipelineIdle /\ OthersIdle

\* enriched_data = enr.process(naturalized_data)
EnricherCall ==
    /\ enr_pc = "call"
    /\ \E order \in EnricherOrders(data) :
          /\ enr_ret' = EnricherProcess(data, order, ttp_context).ret
          /\ data' = EnricherProcess(data, order, ttp_context).data
    /\ enr_pc' = "returned"
    /\ UNCHANGED <<enr_arg, ttp_context>>
    /\ UNCHANGED <<hier_vars, triage_vars, pipe_vars, other_vars>>

NextEnrich == EnricherCall

SpecEnrich == InitEnrich /\ [][NextEnrich]_vars

\* The technique identifiers (whole matches of the pattern, left to right,
\* non-overlapping) that occur in a sentence, and in a list of sentences.
RECURSIVE IdsFrom(_, _)
IdsFrom(s, i) ==
    IF i > Len(s) THEN {}
    ELSE IF TtpMatchLen(s, i) > 0
         THEN {SubSeq(s, i, i + TtpMatchLen(s, i) - 1)} \cup IdsFrom(s, i + TtpMatchLen(s, i))
         ELSE IdsFrom(s, i + 1)

TechniqueIdsIn(sentences) == UNION {IdsFrom(sentences[k], 1) : k \in 1..Len(sentences)}

\* The sentences the call put after the ones it was given.
AddedSentences == SubSeq(data, Len(enr_arg) + 1, Len(data))

\* C3: enrich(s) returns a list at least as long as s whose first len(s)
\* elements are the elements of s, in order.
C3_EnrichReturnsExtension ==
    enr_pc = "returned" =>
        /\ IsList(enr_ret)
        /\ Len(enr_ret.items) >= Len(enr_arg)
        /\ SubSeq(enr_ret.items, 1, Len(enr_arg)) = enr_arg

\* C4: the context sentences enrich adds are exactly one per distinct
\* technique identifier that occurs in some sentence and is a key of the
\* table, each with that technique's name and description.
C4_ContextPerKnownTechnique ==
    enr_pc = "returned" =>
        /\ Range(AddedSentences) =
               {ContextSentence(id, ttp_context[id]) :
                   id \in TechniqueIdsIn(enr_arg) \cap DOMAIN ttp_context}
        /\ Len(AddedSentences) =
               Cardinality(TechniqueIdsIn(enr_arg) \cap DOMAIN ttp_context)

\* C5: after enrich(s) returns, the list the caller passed in has the same
\* length and the same elements as before the call.
C5_EnrichLeavesInputAlone ==
    enr_pc = "returned" => data = enr_arg

NextHierarchy == BuildHierarchyCall

SpecHierarchy == InitHierarchy /\ [][NextHierarchy]_vars

\* The payloads whose parent_payload_id is the empty string.
RootCandidates == {i \in 1..Len(payload_dict.kv) : IsRootCandidate(payload_dict.kv[i][2])}

TheRoot == CHOOSE i \in RootCandidates : TRUE

\* C7: normalize fails with StructuralError when no payload or more than one
\* payload has parent_payload_id == "", and otherwise hierarchy["root"] is
\* built from exactly that payload, with its hash as sha256.
C7_UniqueRootOrStructuralError ==
    hier_pc = "returned" =>
        IF Cardinality(RootCandidates) # 1
        THEN hier_ret.exc = Raised("StructuralError")
        ELSE /\ hier_ret.exc = None
             /\ HasKey(hier_ret.hierarchy, "root")
             /\ Get(Get(hier_ret.hierarchy, "root", EmptyDict), "sha256", None)
                    = PyStr(payload_dict.kv[TheRoot][1])
             /\ Get(Get(hier_ret.hierarchy, "root", EmptyDict), "type", None)
                    = Get(Get(payload_dict.kv[TheRoot][2], "attributes", EmptyDict),
                          "type", PyStr(""))

\* The hashes, in payload iteration order from position i on, of the
\* payloads other than the root r whose parent is the root and whose
\* payload_type is neither empty nor "memdump".
RECURSIVE RootChildrenFrom(_, _, _)
RootChildrenFrom(pd, r, i) ==
    IF i > Len(pd.kv) THEN <<>>
    ELSE (IF /\ i # r
             /\ Get(pd.kv[i][2], "parent_payload_id", None) = PyStr(pd.kv[r][1])
             /\ Get(pd.kv[i][2], "payload_type", PyStr("")) \notin {PyStr(""), PyStr("memdump")}
          THEN <<PyStr(pd.kv[i][1])>> ELSE <<>>)
         \o RootChildrenFrom(pd, r, i + 1)

\* C8: for every payloads mapping with a single root, the children of
\* hierarchy["root"] are, once each and in payload iteration order, the
\* hashes of the non-root payloads whose parent is the root and whose
\* payload_type is non-empty and not "memdump", and nothing else.
C8_RootChildren ==
    (hier_pc = "returned" /\ Cardinality(RootCandidates) = 1) =>
        /\ hier_ret.exc = None
        /\ Get(Get(hier_ret.hierarchy, "root", EmptyDict), "children", None)
               = PyList(RootChildrenFrom(payload_dict, TheRoot, 1))

\* The values of one kind in the targets of the answer, in order of
\* occurrence, and the same without the repeats.
RECURSIVE FoundValues(_, _, _)
FoundValues(targets, kind, i) ==
    IF i > Len(targets) THEN <<>>
    ELSE Get(Get(targets[i], "iocs", EmptyDict), kind, EmptyList).items
             \o FoundValues(targets, kind, i + 1)

RECURSIVE FirstOccurrences(_)
FirstOccurrences(seq) ==
    IF seq = <<>> THEN <<>>
    ELSE LET front == FirstOccurrences(SubSeq(seq, 1, Len(seq) - 1))
             last == seq[Len(seq)]
         IN  IF last \in Range(front) THEN front ELSE Append(front, last)

WithoutInAddrArpa(seq) == SelectSeq(seq, LAMBDA v : ~ContainsInAddrArpa(v))

NoDuplicates(seq) == \A i, j \in 1..Len(seq) : seq[i] = seq[j] => i = j

OverviewReturned ==
    triage_pc = "returned" /\ triage_type = "overview" /\ response.status_code = 200

IocsOf(kind) == Get(Get(triage_ret, "iocs", EmptyDict), kind, None)

AnswerTargets == Get(response.json, "targets", EmptyList).items

----------------------------------------------------------------------------
(* Amplec: the cache in front of the pipeline, the filter behind it *)

\* An exception with the text that str(e) gives
RaisedMsg(type, msg) == [t |-> "exception", type |-> type, msg |-> msg]

\* What uuid.UUID reads of an id: whether 32 hex digits are left once
\* "urn:", "uuid:", braces and hyphens are stripped, whether the text is the
\* lowercase hyphenated form that str() prints, the version digit, whether
\* the variant is the RFC 4122 one.
UuidShape(id) ==
    CASE id = "3f2b8c1e-7a4d-4e9b-8c2f-1a2b3c4d5e6f" ->
            [hex32 |-> TRUE, canonical |-> TRUE, version |-> 4, rfc_variant |-> TRUE]
      [] id = "3f2b8c1e-7a4d-11e9-8c2f-1a2b3c4d5e6f" ->
            [hex32 |-> TRUE, canonical |-> TRUE, version |-> 1, rfc_variant |-> TRUE]
      [] OTHER ->
            [hex32 |-> FALSE, canonical |-> FALSE, version |-> 0, rfc_variant |-> FALSE]

\* A check that takes every text for a UUID
AnyTextIsUuid(uuid_to_check) == TRUE

\* _check_for_validity_of_uuid: uuid.UUID(x, version=4) raises ValueError
\* unless 32 hex digits are left, and sets the version and variant bits of
\* what it parsed; str() of it is x only for a canonical version 4 text.
check_for_validity_of_uuid(uuid_to_check) ==
    LET shape == UuidShape(uuid_to_check)
    IN  IF ~shape.hex32 THEN FALSE
        ELSE shape.canonical /\ shape.version = 4 /\ shape.rfc_variant

InvalidUuidMessage == "Karton does not find the submission, ALSO the provided ID is not a valid UUID!"
NotFoundMessage == "Submission not found!, probably the submission is not finished yet."
FailedToRetrieveMessage == "Failed to retrieve submission"

\* A fetch that takes an empty report for every answer other than 200
RetrieveSwallowsFailure(submission_id, answer) ==
    IF answer.status_code = 200 THEN answer.json ELSE EmptyDict

\* _retrieve_karton_result, the result API answering `answer`
retrieve_karton_result(submission_id, answer) ==
    IF answer.status_code = 200 THEN answer.json
    ELSE IF answer.status_code = 404
    THEN IF ~check_for_validity_of_uuid(submission_id)
         THEN RaisedMsg("ValueError", InvalidUuidMessage)
         ELSE RaisedMsg("ValueError", NotFoundMessage)
    ELSE RaisedMsg("ValueError", FailedToRetrieveMessage)

\* SimplePersistence: load_only_payload raises FileNotFoundError when
\* nothing is stored under the key; store_submission overwrites.
load_only_payload(folder, key) ==
    IF folder[key] = NoEntry THEN Raised("FileNotFoundError") ELSE folder[key]

store_submission(folder, key, payload) == [folder EXCEPT ![key] = payload]

\* The filter of generate_llm_data_input_from_submission_id.
\* re.compile fails on "[" only, of the patterns of the model.
WellFormedRegex(pattern) == pattern # "["

\* str.lower() on the texts of the model
Lower(s) ==
    CASE s = "SHA256" -> "sha256"
      [] s = "The " -> "the "
      [] s = "The root of the hierarchy is: The " -> "the root of the hierarchy is: the "
      [] s = "The root of the hierarchy has " -> "the root of the hierarchy has "
      [] s = "PowerShell" -> "powershell"
      [] s = "T" -> "t"
      [] OTHER -> s

\* `term in piece` on the texts of the model
PieceContains(piece, term) ==
    \/ term = ""
    \/ piece = term
    \/ term = "sha256" /\ piece \in {"#sha256 ", " in the hierarchy with the sha256 hash ",
                                     " with the sha256 hash "}
    \/ term = "root" /\ piece \in {"the root of the hierarchy is: the ",
                                   "the root of the hierarchy has ",
                                   "The root of the hierarchy is: The ",
                                   "The root of the hierarchy has "}

LowerLine(line) == [i \in 1..Len(line) |-> Lower(line[i])]

\* `term in line`, the term lying within one piece
LineContains(line, term) ==
    term = "" \/ \E i \in 1..Len(line) : PieceContains(line[i], term)

\* pattern.search(line) for a pattern without special characters
PatternSearch(pattern, line) == LineContains(line, pattern)

\* A filter that puts each line it keeps in front of the lines kept so far
RECURSIVE KeepLinesNewestFirst(_, _, _, _)
KeepLinesNewestFirst(lines, i, regex_or_search, use_regex) ==
    IF i > Len(lines) THEN <<>>
    ELSE KeepLinesNewestFirst(lines, i + 1, regex_or_search, use_regex)
         \o (IF use_regex
              THEN IF PatternSearch(regex_or_search, lines[i]) THEN <<lines[i]>> ELSE <<>>
              ELSE IF LineContains(LowerLine(lines[i]), Lower(regex_or_search))
                   THEN <<lines[i]>> ELSE <<>>)

RECURSIVE KeepLines(_, _, _, _)
KeepLines(lines, i, regex_or_search, use_regex) ==
    IF i > Len(lines) THEN <<>>
    ELSE (IF use_regex
          THEN IF PatternSearch(regex_or_search, lines[i]) THEN <<lines[i]>> ELSE <<>>
          ELSE IF LineContains(LowerLine(lines[i]), Lower(regex_or_search))
               THEN <<lines[i]>> ELSE <<>>)
         \o KeepLines(lines, i + 1, regex_or_search, use_regex)

InvalidRegexMessage == "Invalid regex pattern"

\* Lines 68-90: iterating what is no list raises TypeError; re.error alone
\* is turned into ValueError.
FilterLines(enriched_data, regex_or_search, use_regex) ==
    IF use_regex /\ ~WellFormedRegex(regex_or_search)
    THEN RaisedMsg("ValueError", InvalidRegexMessage)
    ELSE IF ~IsList(enriched_data) THEN Raised("TypeError")
    ELSE PyList(KeepLines(enriched_data.items, 1, regex_or_search, use_regex))

\* The /process endpoint: the status and the body of the answer
process_endpoint(result) ==
    IF IsRaised(result)
    THEN [status |-> 500,
          message |-> IF "msg" \in DOMAIN result THEN result.msg ELSE result.type,
          data |-> None]
    ELSE [status |-> 200, message |-> "Processing Worked!", data |-> result]

\* mitre_techniques.json, on the techniques of the model
MitreTable == [k \in {T1059_001, T1003} |-> FullTable[k]]

\* Raw reports of the result API
TriageResultEntry ==
    PyDict(<< <<"created_by", PyStr("karton-triage")>>,
              <<"payload_type", PyStr("exe")>>,
              <<"payload_id", PyStr("aa")>>,
              <<"created_at", PyStr("2024-01-01")>>,
              <<"data", PyDict(<< <<"submission_id", PyStr("240101-tri1")>> >>)>> >>)

UnpackerResultEntry ==
    PyDict(<< <<"created_by", PyStr("karton-unpacker")>>,
              <<"payload_type", PyStr("config")>>,
              <<"payload_id", PyStr("bb")>>,
              <<"created_at", PyStr("2024-01-02")>>,
              <<"data", PyDict(<< <<"family", PyStr("agenttesla")>> >>)>> >>)

ReportPayloadResults ==
    PyDict(<< <<"aa", PyList(<<TriageResultEntry>>)>>,
              <<"bb", PyList(<<UnpackerResultEntry>>)>> >>)

ReportPayloads ==
    PyDict(<< <<"aa", MakePayload("", "exe")>>, <<"bb", MakePayload("aa", "config")>> >>)

GoodReport ==
    PyDict(<< <<"payload_results", ReportPayloadResults>>, <<"payloads", ReportPayloads>> >>)

\* Reports that lack payload_results or payloads, or hold them empty
MalformedReports ==
    {PyDict(<< <<"payloads", ReportPayloads>> >>),
     PyDict(<< <<"payload_results", EmptyDict>>, <<"payloads", ReportPayloads>> >>),
     PyDict(<< <<"payload_results", ReportPayloadResults>> >>),
     PyDict(<< <<"payload_results", ReportPayloadResults>>, <<"payloads", EmptyDict>> >>)}

\* Answers of the result API to GET submissions/<id>
ResultApiAnswers ==
    {[status_code |-> 200, json |-> r] : r \in {GoodReport} \cup MalformedReports}
        \cup {[status_code |-> s, json |-> None] : s \in StatusCodes \ {200}}

\* Answers of the triage API, per id and detail kind: all found, none found
TriageApis ==
    {[q \in {<<"240101-tri1", "overview">>, <<"240101-tri1", "report">>} |->
         [status_code |-> 200,
          json |-> MakeTriageJson(
                       <<MakeTarget(StrList(<<"evil.com">>), Absent, Absent, StrList(<<>>))>>,
                       PyList(<< PyDict(<< <<"name", PyStr("persistence")>>,
                                           <<"indicators",
                                             PyList(<<Indicator(PyStr("reg.exe"))>>)>> >>) >>))]],
     [q \in {<<"240101-tri1", "overview">>, <<"240101-tri1", "report">>} |->
         [status_code |-> 404, json |-> EmptyDict]]}

\* The filter arguments of a request: (regex_or_search, use_regex)
FilterArguments == {<<"no such text", FALSE>>, <<"[", TRUE>>}

\* A load that never finds what is stored
LoadStepNeverFinds(call, folder) ==
    [call EXCEPT !.repreprocess = TRUE, !.pc = "retrieve", !.steps = Append(@, "load")]

\* Lines 104-110 of _process_submission_ID: the load and what it leaves in
\* the locals
LoadStep(call, folder) ==
    LET loaded == load_only_payload(folder, call.karton_submission_id)
    IN  IF loaded = Raised("FileNotFoundError")
        THEN [call EXCEPT !.repreprocess = TRUE, !.pc = "retrieve",
                          !.steps = Append(@, "load")]
        ELSE [call EXCEPT !.enriched_data = loaded, !.pc = "filter",
                          !.steps = Append(@, "load")]

\* Lines 111-122 of _process_submission_ID: fetch, normalize, naturalize,
\* enrich, as far as they get
Computed(call, karton_result, pre, order) ==
    The({[call EXCEPT !.pc = "store",
                      !.karton_result = karton_result,
                      !.preprocessed_data = pre.ret,
                      !.naturalized_data = PyList(enr.data),
                      !.enriched_data = enr.ret,
                      !.steps = @ \o <<"normalize", "naturalize", "enrich">>] :
           enr \in {EnricherProcess(naturalized_data, order, MitreTable) :
                       naturalized_data \in {naturalize(pre.ret)}}})

Recompute(call, answer, api, order) ==
    LET karton_result == retrieve_karton_result(call.karton_submission_id, answer)
        fetched == [call EXCEPT !.status_code = answer.status_code,
                                !.fetches = @ + 1,
                                !.steps = Append(@, "fetch")]
    IN  IF IsRaised(karton_result)
        THEN [fetched EXCEPT !.pc = "raised", !.result = karton_result]
        ELSE The({IF pre.exc # None
                  THEN [fetched EXCEPT !.pc = "raised", !.result = pre.exc,
                                       !.karton_result = karton_result,
                                       !.steps = Append(@, "normalize")]
                  ELSE Computed(fetched, karton_result, pre, order) :
                    pre \in {KartonProcess(karton_result, api)}})

\* The orders in which the set of techniques of the naturalized data can
\* be iterated
RecomputeOrders(call, answer, api) ==
    LET karton_result == retrieve_karton_result(call.karton_submission_id, answer)
    IN  IF IsRaised(karton_result) THEN {<<>>}
        ELSE The({IF pre.exc # None THEN {<<>>} ELSE EnricherOrders(naturalize(pre.ret)) :
                    pre \in {KartonProcess(karton_result, api)}})

InitPipeline ==
    /\ PipelineIdle
    /\ EnrichIdle /\ HierIdle /\ TriageIdle /\ OthersIdle

\* A request to /process arrives; requests are numbered as they arrive
Request(c) ==
    /\ calls[c].pc = "idle"
    /\ \A b \in 1..(c - 1) : calls[b].pc # "idle"
    /\ \E id \in SubmissionIds, f \in FilterArguments, reprocess \in BOOLEAN :
          calls' = [calls EXCEPT ![c] =
                       [@ EXCEPT !.karton_submission_id = id,
                                 !.regex_or_search = f[1],
                                 !.use_regex = f[2],
                                 !.reprocess = reprocess,
                                 !.repreprocess = reprocess,
                                 !.pc = IF reprocess THEN "retrieve" ELSE "load"]]
    /\ UNCHANGED persistence
    /\ UNCHANGED <<enr_vars, hier_vars, triage_vars, other_vars>>

\* if not repreprocess: try load_only_payload ... except FileNotFoundError
Load(c) ==
    /\ calls[c].pc = "load"
    /\ calls' = [calls EXCEPT ![c] = LoadStep(calls[c], persistence)]
    /\ UNCHANGED persistence
    /\ UNCHANGED <<enr_vars, hier_vars, triage_vars, other_vars>>

\* if repreprocess: _retrieve_karton_result ... enr.process
Retrieve(c) ==
    /\ calls[c].pc = "retrieve"
    /\ \E answer \in ResultApiAnswers, api \in TriageApis :
          \E order \in RecomputeOrders(calls[c], answer, api) :
              calls' = [calls EXCEPT ![c] = Recompute(calls[c], answer, api, order)]
    /\ UNCHANGED persistence
    /\ UNCHANGED <<enr_vars, hier_vars, triage_vars, other_vars>>

\* self.persistence.store_submission(karton_submission_id, enriched_data)
Store(c) ==
    /\ calls[c].pc = "store"
    /\ persistence' = store_submission(persistence, calls[c].karton_submission_id,
                                       calls[c].enriched_data)
    /\ calls' = [calls EXCEPT ![c] = [@ EXCEPT !.pc = "filter",
                                                !.steps = Append(@, "store")]]
    /\ UNCHANGED <<enr_vars, hier_vars, triage_vars, other_vars>>

\* The rest of generate_llm_data_input_from_submission_id
Filter(c) ==
    /\ calls[c].pc = "filter"
    /\ LET search_result == FilterLines(calls[c].enriched_data, calls[c].regex_or_search,
                                        calls[c].use_regex)
       IN  calls' = [calls EXCEPT ![c] =
                        [@ EXCEPT !.result = search_result,
                                  !.pc = IF IsRaised(search_result) THEN "raised"
                                         ELSE "returned",
                                  !.steps = Append(@, "filter")]]
    /\ UNCHANGED persistence
    /\ UNCHANGED <<enr_vars, hier_vars, triage_vars, other_vars>>

Next ==
    \E c \in 1..NCalls : Request(c) \/ Load(c) \/ Retrieve(c) \/ Store(c) \/ Filter(c)

Spec == InitPipeline /\ [][Next]_vars

----------------------------------------------------------------------------
(* The cache *)

\* A request that did not ask for reprocessing and whose load found an entry
CacheHit(call) ==
    /\ ~call.reprocess
    /\ call.pc \notin {"idle", "load"}
    /\ ~call.repreprocess

Finished(call) == call.pc \in {"returned", "raised"}

\* C1: once an entry is stored under an id, a request for that id without
\* reprocess finds it at its load, and from then on that request never
\* fetches the raw report and never changes the folder; a request that hit
\* has fetched nothing.
C1_CacheHitNoUpstream ==
    [][\A c \in 1..NCalls :
          /\ (/\ calls[c].pc = "load"
              /\ calls'[c] # calls[c]
              /\ persistence[calls[c].karton_submission_id] # NoEntry)
                => CacheHit(calls'[c])
          /\ (CacheHit(calls[c]) /\ calls'[c] # calls[c])
                => /\ persistence' = persistence
                   /\ calls'[c].fetches = 0
                   /\ calls'[c].status_code = 0
          /\ CacheHit(calls'[c])
                => /\ calls'[c].fetches = 0
                   /\ "fetch" \notin Range(calls'[c].steps)
                   /\ "store" \notin Range(calls'[c].steps)]_vars

\* Two requests for one id without reprocess: the first computed and stored,
\* the second was served from the folder and is over; one fetch in all.
C1_Witness ==
    \E c1, c2 \in 1..NCalls :
        /\ c1 # c2
        /\ calls[c1].karton_submission_id = calls[c2].karton_submission_id
        /\ ~calls[c1].reprocess /\ ~calls[c2].reprocess
        /\ "store" \in Range(calls[c1].steps) /\ Finished(calls[c1])
        /\ CacheHit(calls[c2]) /\ Finished(calls[c2])
        /\ calls[c2].enriched_data = persistence[calls[c2].karton_submission_id]
        /\ calls[c1].fetches + calls[c2].fetches = 1

\* A request without reprocess whose load found nothing and that went on
\* to store
MissStored(call) ==
    /\ ~call.reprocess
    /\ call.repreprocess
    /\ "store" \in Range(call.steps)

\* C2: a request without reprocess for an id with no entry runs load,
\* fetch, normalize, naturalize, enrich, store in this order, and what it
\* stores and then filters is a list of sentences, never an absent value.
C2_MissStoresAndFiltersList ==
    \A c \in 1..NCalls :
        MissStored(calls[c])
            => /\ SubSeq(calls[c].steps, 1, 6)
                    = <<"load", "fetch", "normalize", "naturalize", "enrich", "store">>
               /\ IsList(calls[c].enriched_data)
               /\ Finished(calls[c]) /\ ~calls[c].use_regex => IsList(calls[c].result)

\* The raw report lacks payload_results or payloads, or holds it empty
MissingTopLevelKey(raw) ==
    IsDict(raw) /\ (~Truthy(Get(raw, "payload_results", None))
                        \/ ~Truthy(Get(raw, "payloads", None)))

\* C6: when the fetched report lacks payload_results or payloads (absent or
\* empty), normalize fails with MalformedReportError: the request ends with
\* that error, with no canonical structure and no sentence list.
C6_MalformedReportFails ==
    \A c \in 1..NCalls :
        MissingTopLevelKey(calls[c].karton_result)
            => /\ calls[c].pc = "raised"
               /\ calls[c].result = Raised("MalformedReportError")
               /\ calls[c].preprocessed_data = Pending
               /\ calls[c].naturalized_data = Pending

\* The fetch of the raw report of a request failed
FetchFailed(call) ==
    call.pc = "raised" /\ call.steps # <<>> /\ call.steps[Len(call.steps)] = "fetch"

\* The ids of the model that are canonical version 4 UUIDs
WellFormedIds == {"3f2b8c1e-7a4d-4e9b-8c2f-1a2b3c4d5e6f"}

\* The three ways in which a fetch fails
FetchFailureKind(call) ==
    IF call.status_code = 404
    THEN IF call.karton_submission_id \in WellFormedIds THEN "not found" ELSE "invalid id"
    ELSE "upstream"

StepsBehindFetch == {"normalize", "naturalize", "enrich", "store"}

\* C11: a fetch of the raw report that is not answered with 200 ends the
\* request with the error of the fetch: the step leaves the folder as it is,
\* normalize, naturalize, enrich and store never run for that request, and
\* a request that has ended with an error takes no further step, so an
\* entry stored earlier under the id keeps its value.
C11_FailedFetchLeavesCache ==
    [][\A c \in 1..NCalls :
          /\ (/\ calls[c].pc = "retrieve"
              /\ calls'[c] # calls[c]
              /\ calls'[c].status_code # 200)
                => /\ FetchFailed(calls'[c])
                   /\ process_endpoint(calls'[c].result).status = 500
                   /\ persistence' = persistence
                   /\ Range(calls'[c].steps) \cap StepsBehindFetch = {}
                   /\ calls'[c].preprocessed_data = Pending
                   /\ calls'[c].naturalized_data = Pending
                   /\ calls'[c].enriched_data = Pending
          /\ calls[c].pc = "raised" => calls'[c] = calls[c]]_vars

\* A request with reprocess for an id that has an entry met a failed fetch;
\* the entry that another request stored is still there.
C11_Witness ==
    \E c1, c2 \in 1..NCalls :
        /\ c1 # c2
        /\ calls[c1].karton_submission_id = calls[c2].karton_submission_id
        /\ "store" \in Range(calls[c1].steps)
        /\ calls[c2].reprocess
        /\ FetchFailed(calls[c2])
        /\ calls[c2].status_code \in {404, 500}
        /\ persistence[calls[c2].karton_submission_id] = calls[c1].enriched_data

----------------------------------------------------------------------------
(* The filter on its own *)

MaxLines == 3

\* Sentences as the naturalizer and the enricher write them
FilterSentences ==
    { <<"#sha256 ", "aa", " is a config ", "family", ": ", "agenttesla", ", ">>,
      <<"The root of the hierarchy is: The ", "exe", " with the sha256 hash ", "aa">>,
      <<"The root of the hierarchy has ", "1", " children, ">>,
      <<"uses ", "PowerShell">> }

\* regex_or_search: texts without special characters, and "["
SearchTexts == {"", "sha256", "SHA256", "root", "[", "no such text"}

InitFilter ==
    /\ \E n \in 0..MaxLines : \E f \in [1..n -> FilterSentences] : flt_lines = PyList(f)
    /\ flt_search \in SearchTexts
    /\ flt_regex \in BOOLEAN
    /\ flt_ret = Pending /\ flt_again = Pending
    /\ flt_pc = "call"
    /\ EnrichIdle /\ HierIdle /\ TriageIdle /\ PipelineIdle
    /\ NaturalizeIdle /\ NormalizeIdle

\* The filter runs on the list
FilterOnce ==
    /\ flt_pc = "call"
    /\ flt_ret' = FilterLines(flt_lines, flt_search, flt_regex)
    /\ flt_pc' = "once"
    /\ UNCHANGED <<flt_lines, flt_search, flt_regex, flt_again>>
    /\ UNCHANGED <<enr_vars, hier_vars, triage_vars, pipe_vars, nat_vars, norm_vars>>

\* The filter runs on what it returned, with the same arguments
FilterTwice ==
    /\ flt_pc = "once"
    /\ IsList(flt_ret)
    /\ flt_again' = FilterLines(flt_ret, flt_search, flt_regex)
    /\ flt_pc' = "twice"
    /\ UNCHANGED <<flt_lines, flt_search, flt_regex, flt_ret>>
    /\ UNCHANGED <<enr_vars, hier_vars, triage_vars, pipe_vars, nat_vars, norm_vars>>

NextFilter == FilterOnce \/ FilterTwice

SpecFilter == InitFilter /\ [][NextFilter]_vars

\* a is b with some of its elements left out
RECURSIVE IsSubsequence(_, _)
IsSubsequence(a, b) ==
    IF a = <<>> THEN TRUE
    ELSE IF b = <<>> THEN FALSE
    ELSE IF Head(a) = Head(b) THEN IsSubsequence(Tail(a), Tail(b))
    ELSE IsSubsequence(a, Tail(b))

\* C12: what the filter returns is the list it was given with some lines
\* left out, the others in their order; the filter run on its own result
\* with the same pattern and mode returns that result.
C12_FilterIdempotentOrdered ==
    /\ (flt_pc \in {"once", "twice"} /\ IsList(flt_ret))
          => IsSubsequence(flt_ret.items, flt_lines.items)
    /\ flt_pc = "twice" => flt_again = flt_ret

\* The filter kept two different lines of three and was run again
C12_Witness ==
    /\ flt_pc = "twice"
    /\ Len(flt_lines.items) = 3
    /\ Len(flt_ret.items) = 2
    /\ flt_ret.items[1] # flt_ret.items[2]

\* The request computed its sentences and its pattern, well-formed for its
\* mode, matches none of them
MatchesNoSentence(call) ==
    /\ "filter" \in Range(call.steps)
    /\ ~call.use_regex \/ WellFormedRegex(call.regex_or_search)
    /\ IsList(call.naturalized_data)
    /\ KeepLines(call.naturalized_data.items, 1, call.regex_or_search, call.use_regex) = <<>>

\* C13: a request in regex mode with a malformed pattern ends with the
\* invalid-pattern error and no list; a request whose well-formed pattern
\* matches none of its sentences ends without error and returns the empty
\* list.
C13_PatternErrorAndEmptyResult ==
    \A c \in 1..NCalls :
        /\ (/\ "filter" \in Range(calls[c].steps)
            /\ calls[c].use_regex
            /\ ~WellFormedRegex(calls[c].regex_or_search))
              => /\ calls[c].pc = "raised"
                 /\ process_endpoint(calls[c].result).message = InvalidRegexMessage
        /\ MatchesNoSentence(calls[c])
              => /\ calls[c].pc = "returned"
                 /\ calls[c].result = EmptyList

----------------------------------------------------------------------------
(* naturalize on its own *)

\* Values of the key "configs": none, an empty config, a config with a list
\* of scalars and a list of signature dicts (one named, one not)
ConfigsPool ==
    {EmptyDict,
     PyDict(<< <<"bb", EmptyDict>> >>),
     PyDict(<< <<"bb", PyDict(<< <<"family", PyStr("agenttesla")>>,
                                 <<"c2", StrList(<<"a.com", "b.com">>)>>,
                                 <<"signatures",
                                   PyList(<< PyDict(<< <<"name", PyStr("stealer")>>,
                                                       <<"score", PyInt(8)>> >>),
                                             PyDict(<< <<"score", PyInt(5)>>,
                                                       <<"tags", EmptyList>> >>) >>)>> >>)>> >>),
     PyDict(<< <<"cc", PyDict(<< <<"c2", StrList(<<"a.com">>)>>,
                                 <<"keys", PyList(<<PyDict(<< <<"k", PyStr("v")>> >>)>>)>>,
                                 <<"nested",
                                   PyDict(<< <<"inner",
                                               PyDict(<< <<"x", StrList(<<"1", "2">>)>> >>)>> >>)>>,
                                 <<"hosts", PyList(<<StrList(<<"a", "b">>)>>)>>,
                                 <<"deep",
                                   PyList(<<PyDict(<< <<"y", StrList(<<"3", "4">>)>> >>)>>)>>,
                                 <<"mixed", PyList(<<PyStr("a"), StrList(<<"b">>)>>)>> >>)>> >>)}

HierarchyNode(type, children) ==
    PyDict(<< <<"created_by", PyStr("karton-unpacker")>>, <<"file_magic", PyStr("")>>,
              <<"type", PyStr(type)>>, <<"children", StrList(children)>> >>)

\* Values of the key "hierarchy": no root, a root with one child, a root
\* with children of two types and a grandchild
HierarchyPool ==
    {EmptyDict,
     PyDict(<< <<"root", SetItem(HierarchyNode("exe", <<"bb">>), "sha256", PyStr("aa"))>>,
               <<"bb", HierarchyNode("config", <<>>)>> >>),
     PyDict(<< <<"root", SetItem(HierarchyNode("exe", <<"bb", "cc", "dd">>),
                                 "sha256", PyStr("aa"))>>,
               <<"bb", HierarchyNode("config", <<"ee">>)>>,
               <<"cc", HierarchyNode("dll", <<>>)>>,
               <<"dd", HierarchyNode("dll", <<>>)>>,
               <<"ee", HierarchyNode("config", <<>>)>> >>)}

ResultRecord(type, payload) ==
    PyDict(<< <<"payload_type", PyStr("exe")>>, <<"type", PyStr(type)>>,
              <<"data", payload>>, <<"payload_id", PyStr("aa")>>,
              <<"timestamp", PyStr("2024-01-01")>> >>)

\* Values of the key "results": none, a record with empty data, a triage
\* record with nested data next to a record with a list of dicts as data
ResultsPool ==
    {EmptyDict,
     PyDict(<< <<"aa", PyList(<<ResultRecord("unpacker", EmptyDict)>>)>> >>),
     PyDict(<< <<"aa", PyList(<<
                 ResultRecord("triage",
                     PyDict(<< <<"analysis", PyDict(<< <<"score", PyInt(10)>> >>)>>,
                               <<"sha256", PyStr("deadbeef")>>,
                               <<"iocs", PyDict(<< <<"ips", EmptyList>>,
                                                   <<"domains",
                                                     StrList(<<"evil.com", "bad.org">>)>> >>)>> >>)),
                 ResultRecord("strings",
                     PyDict(<< <<"indicators",
                                 PyList(<< PyDict(<< <<"description", PyStr("")>>,
                                                     <<"ioc", PyStr("reg.exe")>> >>),
                                           PyDict(<< <<"label", PyStr("run key")>>,
                                                     <<"ioc", PyStr("HKCU")>> >>) >>)>> >>)) >>)>> >>)}

TriageRecord(identity, signatures) ==
    PyDict(<< <<"analysis", EmptyDict>> >> \o identity
           \o << <<"id", PyStr("abc")>>, <<"signatures", signatures>> >>)

\* Values of the key "triage_results": none, the empty record of a failed
\* fetch, records identified by a sha256, by a label, by an empty name, by
\* a number
TriageResultsPool ==
    {EmptyDict,
     PyDict(<< <<"240101-tri1", EmptyDict>> >>),
     PyDict(<< <<"240101-tri1",
                 TriageRecord(<< <<"sha256", PyStr("deadbeef")>> >>,
                     PyList(<< PyDict(<< <<"name", PyStr("persistence")>>,
                                         <<"indicators",
                                           PyList(<<Indicator(PyStr("reg.exe")),
                                                    Indicator(PyStr("run.exe"))>>)>> >>),
                               PyDict(<< <<"label", PyStr("")>>,
                                         <<"ttp", StrList(<<"T1059", "T1003">>)>> >>) >>))>>,
               <<"240101-tri2", TriageRecord(<< <<"label", PyStr("sample two")>> >>,
                                             EmptyList)>> >>),
     PyDict(<< <<"240101-tri1", TriageRecord(<< <<"name", PyStr("")>> >>, EmptyList)>> >>),
     PyDict(<< <<"240101-tri1", TriageRecord(<< <<"sha256", PyInt(5)>> >>, EmptyList)>> >>)}

\* The canonical structure with the given values; Absent leaves a key out
MakeCanonical(configs, hierarchy, results, triage_results) ==
    PyDict(DictOfPresent(<< <<"hierarchy", hierarchy>>, <<"results", results>>,
                            <<"configs", configs>>, <<"triage_results", triage_results>> >>))

InitNaturalize ==
    /\ \E c \in ConfigsPool \cup {Absent}, h \in HierarchyPool \cup {Absent},
          r \in ResultsPool \cup {Absent}, t \in TriageResultsPool \cup {Absent} :
            nat_arg = MakeCanonical(c, h, r, t)
    /\ nat_ret = Pending
    /\ nat_pc = "call"
    /\ EnrichIdle /\ HierIdle /\ TriageIdle /\ PipelineIdle
    /\ FilterIdle /\ NormalizeIdle

\* naturalized_data = nlp.naturalize(preprocessed_data)
NaturalizeCall ==
    /\ nat_pc = "call"
    /\ nat_ret' = naturalize_call(nat_arg)
    /\ nat_pc' = "returned"
    /\ UNCHANGED nat_arg
    /\ UNCHANGED <<enr_vars, hier_vars, triage_vars, pipe_vars, filter_vars, norm_vars>>

NextNaturalize == NaturalizeCall

\* The step in which the call of naturalize comes back to its caller
NaturalizeReturns == nat_pc = "call" /\ nat_pc' = "returned"

\* A call that has started runs to its end: the body of naturalize has no
\* loop but those over the finite structure it is given
SpecNaturalize == InitNaturalize /\ [][NextNaturalize]_vars /\ WF_nat_pc(NaturalizeReturns)

\* A sentence that begins with a non-empty headline prefix
BeginsWithHeadline(sentence) == Len(sentence) > 0 /\ sentence[1] # ""

\* C14: for every canonical structure built of mappings, sequences and
\* scalars, a call of naturalize comes to its end and returns a list of
\* sentences, each of which begins with a non-empty headline prefix.
C14_TerminatesWithHeadlinePrefix ==
    /\ [](nat_pc = "returned" =>
              /\ IsList(nat_ret)
              /\ \A i \in 1..Len(nat_ret.items) : BeginsWithHeadline(nat_ret.items[i]))
    /\ (nat_pc = "call") ~> (nat_pc = "returned")

\* The sentences of one sub-structure of d, none when its key is missing
PartSentences(d, key) ==
    IF ~HasKey(d, key) THEN <<>>
    ELSE CASE key = "configs" -> naturalize_configs(Get(d, key, None))
           [] key = "hierarchy" -> naturalize_hierarchy(Get(d, key, None))
           [] key = "results" -> naturalize_results(Get(d, key, None))
           [] key = "triage_results" -> naturalize_triage_results(Get(d, key, None))

\* C15: a missing top-level key is handled per key: whichever of configs,
\* hierarchy, results and triage_results are missing, the list naturalize
\* returns holds the sentences of every sub-structure that is present.
C15_MissingKeyHandledPerKey ==
    (nat_pc = "returned" /\ IsList(nat_ret)) =>
        \A key \in {"configs", "hierarchy", "results", "triage_results"} :
            Range(PartSentences(nat_arg, key)) \subseteq Range(nat_ret.items)

----------------------------------------------------------------------------
(* Forced recomputation *)

\* A request that asked for reprocessing and has been taken up
ForcedCall(call) == call.reprocess /\ call.pc # "idle"

\* A forced request never loads, and has fetched once as soon as it is past
\* its fetch
ForcedSkipsCache(call) ==
    /\ "load" \notin Range(call.steps)
    /\ call.fetches = (IF call.pc = "retrieve" THEN 0 ELSE 1)

\* The store of a forced request puts what it computed under its id
ForcedStoreOverwrites(call, folder) ==
    folder[call.karton_submission_id] = call.enriched_data

\* C16: a request with reprocess set never reads the folder: it fetches the
\* raw report exactly once, recomputes, and where it succeeds its store
\* overwrites the entry of its id with the recomputed list of sentences, so
\* that a later request without reprocess for that id loads that list and
\* returns its lines.
C16_ForcedRecomputeReplacesEntry ==
    [][\A c \in 1..NCalls :
          /\ ForcedCall(calls'[c]) => ForcedSkipsCache(calls'[c])
          /\ (ForcedCall(calls[c]) /\ calls[c].pc = "store" /\ calls'[c] # calls[c])
                => /\ ForcedStoreOverwrites(calls[c], persistence')
                   /\ IsList(persistence'[calls[c].karton_submission_id])
          /\ (/\ ~calls[c].reprocess /\ calls[c].pc = "load" /\ calls'[c] # calls[c]
              /\ \E b \in 1..NCalls :
                    /\ ForcedCall(calls[b]) /\ "store" \in Range(calls[b].steps)
                    /\ calls[b].karton_submission_id = calls[c].karton_submission_id)
                => /\ CacheHit(calls'[c])
                   /\ calls'[c].enriched_data = persistence[calls[c].karton_submission_id]
                   /\ IsList(calls'[c].enriched_data)]_vars

----------------------------------------------------------------------------
(* KartonPreprocessor.process with a triage API that fails *)

\* The triage submissions the reports of these runs name
NormTriageIds == {"240101-tri1", "240101-tri2"}

\* A result entry of the triage analysis of payload `payload_id`
TriageEntryOf(id, payload_id) ==
    PyDict(<< <<"created_by", PyStr("karton-triage")>>,
              <<"payload_type", PyStr("exe")>>,
              <<"payload_id", PyStr(payload_id)>>,
              <<"created_at", PyStr("2024-01-01")>>,
              <<"data", PyDict(<< <<"submission_id", PyStr(id)>> >>)>> >>)

\* Raw reports: one triage analysis; two of one payload next to an
\* unpacker result; the same triage submission under two payloads; triage
\* analyses and no payloads
NormReports ==
    {GoodReport,
     PyDict(<< <<"payload_results",
                 PyDict(<< <<"aa", PyList(<<TriageEntryOf("240101-tri1", "aa"),
                                            TriageEntryOf("240101-tri2", "aa")>>)>>,
                           <<"bb", PyList(<<UnpackerResultEntry>>)>> >>)>>,
               <<"payloads", ReportPayloads>> >>),
     PyDict(<< <<"payload_results",
                 PyDict(<< <<"aa", PyList(<<TriageEntryOf("240101-tri1", "aa")>>)>>,
                           <<"bb", PyList(<<TriageEntryOf("240101-tri1", "bb")>>)>> >>)>>,
               <<"payloads", ReportPayloads>> >>),
     PyDict(<< <<"payload_results",
                 PyDict(<< <<"aa", PyList(<<TriageEntryOf("240101-tri2", "aa")>>)>> >>)>> >>)}

\* The answer of the triage API with the given status
TriageAnswer(status) ==
    [status_code |-> status,
     json |-> IF status = 200
              THEN MakeTriageJson(
                       <<MakeTarget(StrList(<<"evil.com">>), Absent, Absent, StrList(<<>>))>>,
                       PyList(<< PyDict(<< <<"name", PyStr("persistence")>>,
                                           <<"indicators",
                                             PyList(<<Indicator(PyStr("reg.exe"))>>)>> >>) >>))
              ELSE EmptyDict]

\* Bodies of a config payload: mappings (one that overrides a base field),
\* strings, a number, sequences of pairs and of other things
ConfigBodies ==
    {PyDict(<< <<"c2", StrList(<<"a.com">>)>>, <<"family", PyStr("formbook")>> >>),
     EmptyDict,
     PyStr(""),
     PyStr("raw config text"),
     PyInt(7),
     EmptyList,
     PyList(<<PyList(<<PyStr("c2"), PyStr("a.com")>>)>>),
     PyList(<<PyList(<<PyStr("c2"), PyStr("a.com")>>), PyStr("b.com")>>)}

\* A config payload, child of 'aa', with the given body
ConfigPayload(body) ==
    PyDict(<< <<"parent_payload_id", PyStr("aa")>>,
              <<"payload_type", PyStr("config")>>,
              <<"created_by", PyStr("karton-config-extractor")>>,
              <<"attributes", PyDict(<< <<"family", PyStr("agenttesla")>>,
                                        <<"type", PyStr("config")>> >>)>>,
              <<"data", body>> >>)

\* Raw reports whose payload 'bb' is a config with one of the bodies
ConfigReports ==
    {PyDict(<< <<"payload_results", ReportPayloadResults>>,
               <<"payloads", PyDict(<< <<"aa", MakePayload("", "exe")>>,
                                       <<"bb", ConfigPayload(body)>> >>)>> >>) :
        body \in ConfigBodies}

InitNormalize ==
    /\ raw_report \in NormReports \cup ConfigReports
    /\ triage_api \in [NormTriageIds \X {"overview", "report"}
                          -> {TriageAnswer(status) : status \in StatusCodes}]
    /\ norm_ret = Pending
    /\ norm_pc = "call"
    /\ EnrichIdle /\ HierIdle /\ TriageIdle /\ PipelineIdle
    /\ FilterIdle /\ NaturalizeIdle

\* preprocessed_data = pre.process(karton_result)
NormalizeCall ==
    /\ norm_pc = "call"
    /\ norm_ret' = KartonProcess(raw_report, triage_api)
    /\ norm_pc' = "returned"
    /\ UNCHANGED <<raw_report, triage_api>>
    /\ UNCHANGED <<enr_vars, hier_vars, triage_vars, pipe_vars, filter_vars, nat_vars>>

NextNormalize == NormalizeCall

SpecNormalize == InitNormalize /\ [][NextNormalize]_vars

\* The requests of the call that the triage API answered with a failure
FailedTriageRequests ==
    {q \in Range(norm_ret.requests) : triage_api[q].status_code # 200}

\* The raw report holds payload results and payloads
HasPayloadsAndResults(raw) ==
    Truthy(Get(raw, "payload_results", None)) /\ Truthy(Get(raw, "payloads", None))

\* The places (payload key, position) of the triage entries of the raw
\* report that name submission id
TriageEntryPlaces(raw, id) ==
    LET payload_results == Get(raw, "payload_results", EmptyDict)
        places == UNION {{<<payload_results.kv[k][1], j>> :
                             j \in 1..Len(payload_results.kv[k][2].items)} :
                          k \in 1..Len(payload_results.kv)}
    IN  {pl \in places :
            LET entry == Get(payload_results, pl[1], EmptyList).items[pl[2]]
            IN  /\ Get(entry, "created_by", None) = PyStr("karton-triage")
                /\ Get(Get(entry, "data", EmptyDict), "submission_id", None) = PyStr(id)}

\* C17: when the triage API answers a detail request with anything but
\* success, normalize is not aborted: no exception leaves it, the detail
\* that failed is empty (the data of the result record for an overview, the
\* entry of triage_results for a report), and for a raw report with payload
\* results and payloads the structure returned has all four keys.
C17_TriageFailureNotFatal ==
    (norm_pc = "returned" /\ FailedTriageRequests # {}) =>
        /\ norm_ret.exc = None
        /\ IsDict(norm_ret.ret)
        /\ HasPayloadsAndResults(raw_report) =>
              /\ Keys(norm_ret.ret) = {"hierarchy", "results", "configs", "triage_results"}
              /\ \A q \in FailedTriageRequests :
                    IF q[2] = "report"
                    THEN Get(Get(norm_ret.ret, "triage_results", None), q[1], None) = EmptyDict
                    ELSE /\ TriageEntryPlaces(raw_report, q[1]) # {}
                         /\ \A pl \in TriageEntryPlaces(raw_report, q[1]) :
                               Get(Get(Get(norm_ret.ret, "results", None),
                                       pl[1], None).items[pl[2]], "data", None) = EmptyDict

\* A report with two triage analyses: the overview of one and the report
\* of the other failed, the other two details came; all four keys returned
C17_Witness ==
    /\ norm_pc = "returned"
    /\ HasPayloadsAndResults(raw_report)
    /\ <<"240101-tri1", "overview">> \in FailedTriageRequests
    /\ <<"240101-tri2", "report">> \in FailedTriageRequests
    /\ <<"240101-tri2", "overview">> \in Range(norm_ret.requests) \ FailedTriageRequests
    /\ <<"240101-tri1", "report">> \in Range(norm_ret.requests) \ FailedTriageRequests
    /\ Keys(norm_ret.ret) = {"hierarchy", "results", "configs", "triage_results"}
    /\ Get(Get(norm_ret.ret, "triage_results", None), "240101-tri2", None) = EmptyDict
    /\ Truthy(Get(Get(norm_ret.ret, "triage_results", None), "240101-tri1", None))

----------------------------------------------------------------------------
(* The edges of the hierarchy *)

\* The children list of the node under key
ChildrenOf(hierarchy, key) ==
    Get(Get(hierarchy, key, EmptyDict), "children", EmptyList).items

\* The positions of the payloads that are built as nodes next to the root:
\* typed, no memdump, not the root; none when no root is found
BuiltNodes(pd) ==
    IF RootIndex(pd) = 0 THEN {}
    ELSE {i \in 1..Len(pd.kv) :
             /\ i # RootIndex(pd)
             /\ Get(pd.kv[i][2], "payload_type", PyStr("")) \notin {PyStr(""), PyStr("memdump")}}

\* C18: in every hierarchy that is returned, whatever the iteration order
\* of the payloads, each children list holds only hashes that are keys of
\* the hierarchy, and no hash stands in two children lists or twice in one.
C18_ChildrenAreKeysOnce ==
    (hier_pc = "returned" /\ hier_ret.exc = None) =>
        LET hierarchy == hier_ret.hierarchy
            edges == {<<key, n>> \in Keys(hierarchy) \X (1..MaxPayloads) :
                         n <= Len(ChildrenOf(hierarchy, key))}
        IN  /\ \A key \in Keys(hierarchy) : Len(ChildrenOf(hierarchy, key)) <= MaxPayloads
            /\ \A e \in edges :
                  /\ IsStr(ChildrenOf(hierarchy, e[1])[e[2]])
                  /\ ChildrenOf(hierarchy, e[1])[e[2]].s \in Keys(hierarchy)
            /\ \A e, f \in edges :
                  ChildrenOf(hierarchy, e[1])[e[2]] = ChildrenOf(hierarchy, f[1])[f[2]]
                      => e = f

\* Three payloads in an order that puts a child before the root: the root
\* has both typed payloads as children, each once
C18_Witness ==
    /\ hier_pc = "returned" /\ hier_ret.exc = None
    /\ Len(payload_dict.kv) = 3
    /\ RootIndex(payload_dict) = 2
    /\ BuiltNodes(payload_dict) = {1, 3}
    /\ ChildrenOf(hier_ret.hierarchy, "root")
           = <<PyStr(payload_dict.kv[1][1]), PyStr(payload_dict.kv[3][1])>>

\* The built nodes whose parent is a node other than the root that was
\* built earlier in the iteration, with the position of that parent
NonRootLinks(pd) ==
    {l \in BuiltNodes(pd) \X BuiltNodes(pd) :
        /\ l[2] < l[1]
        /\ Get(pd.kv[l[1]][2], "parent_payload_id", None) = PyStr(pd.kv[l[2]][1])}

\* C19: for every built node whose parent_payload_id is the hash of a node
\* other than the root that was built earlier in the iteration, the build
\* completes and the hash of the node is appended to the children list of
\* that parent.
C19_LinkToNonRootParent ==
    hier_pc = "returned" =>
        \A l \in NonRootLinks(payload_dict) :
            /\ hier_ret.exc = None
            /\ PyStr(payload_dict.kv[l[1]][1])
                   \in Range(ChildrenOf(hier_ret.hierarchy, payload_dict.kv[l[2]][1]))

\* The built nodes whose parent_payload_id names no node built so far:
\* neither the root nor a node built earlier in the iteration
Orphans(pd) ==
    {i \in BuiltNodes(pd) :
        /\ Get(pd.kv[i][2], "parent_payload_id", PyStr("")) # PyStr(pd.kv[RootIndex(pd)][1])
        /\ \A j \in BuiltNodes(pd) :
              j < i => Get(pd.kv[i][2], "parent_payload_id", PyStr("")) # PyStr(pd.kv[j][1])}

\* A dict without one of its keys, a payload dict without one of its payloads
WithoutKey(d, key) == PyDict(SelectSeq(d.kv, LAMBDA pair : pair[1] # key))

\* C20: an orphan is not fatal. When a built node names as parent no node
\* built so far, the build still completes; the node is a key of the
\* hierarchy, its children list holds only nodes that name it as parent, it
\* stands in no children list, and the other nodes and their edges are
\* what is built from the payloads without the orphan.
C20_OrphanNotFatal ==
    hier_pc = "returned" =>
        \A i \in Orphans(payload_dict) :
            LET sha256 == payload_dict.kv[i][1]
                hierarchy == hier_ret.hierarchy
                without == build_hierarchy_from_payload_dict(
                               WithoutKey(payload_dict, sha256), EmptyDict)
            IN  /\ hier_ret.exc = None
                /\ HasKey(hierarchy, sha256)
                /\ \A k \in 1..Len(payload_dict.kv) :
                      PyStr(payload_dict.kv[k][1]) \in Range(ChildrenOf(hierarchy, sha256))
                          => Get(payload_dict.kv[k][2], "parent_payload_id", None) = PyStr(sha256)
                /\ \A key \in Keys(hierarchy) :
                      PyStr(sha256) \notin Range(ChildrenOf(hierarchy, key))
                /\ without.exc = None
                      => \A key \in Keys(without.hierarchy) :
                            /\ HasKey(hierarchy, key)
                            /\ Range(ChildrenOf(without.hierarchy, key))
                                   \subseteq Range(ChildrenOf(hierarchy, key))

----------------------------------------------------------------------------
(* The report details *)

\* The triage submission ids that the triage result records of raw name
TriageIdsIn(raw) == {id \in NormTriageIds : TriageEntryPlaces(raw, id) # {}}

\* How often the call asked the triage API for the detail `kind` of id
TimesRequested(id, kind) ==
    Cardinality({n \in 1..Len(norm_ret.requests) : norm_ret.requests[n] = <<id, kind>>})

\* C21: for every raw report with payload results and payloads, the report
\* detail is fetched exactly once for each distinct triage submission id
\* that the triage result records name, however many records name it, and
\* the keys of triage_results are exactly those ids.
C21_ReportFetchedOncePerId ==
    (norm_pc = "returned" /\ HasPayloadsAndResults(raw_report)) =>
        /\ norm_ret.exc = None
        /\ \A id \in NormTriageIds :
              TimesRequested(id, "report") = (IF id \in TriageIdsIn(raw_report) THEN 1 ELSE 0)
        /\ Keys(Get(norm_ret.ret, "triage_results", EmptyDict)) = TriageIdsIn(raw_report)

----------------------------------------------------------------------------
(* The cleanup of the signatures *)

\* A report detail that was fetched and has come back to its caller
ReportReturned ==
    triage_pc = "returned" /\ triage_type = "report" /\ response.status_code = 200

\* The indicators a signature of the answer holds, none when it has no list
InputIndicators(signature) == Get(signature, "indicators", EmptyList).items

\* The first IocMaxLen characters of the ioc value of an indicator
FirstCharacters(indicator) ==
    LET ioc == Get(indicator, "ioc", PyStr(""))
    IN  IF IsRepStr(ioc) /\ ioc.rep > IocMaxLen
        THEN SetItem(indicator, "ioc", [ioc EXCEPT !.rep = IocMaxLen])
        ELSE indicator

\* The indicator list the cleanup is to leave in a signature
ExpectedIndicators(signature) ==
    LET indicators == InputIndicators(signature)
    IN  IF \/ Len(indicators) > MaxKeptIndicators
           \/ \E i \in 1..Len(indicators) : HasKey(indicators[i], "yara_rule")
        THEN <<>>
        ELSE [i \in 1..Len(indicators) |-> FirstCharacters(indicators[i])]

\* C22: the cleanup of the signatures of a report detail never fails, and
\* for every signature, one with an empty or a missing indicator list
\* included, the indicator list it leaves is empty when the input holds
\* more than 10 indicators or rule matches, and otherwise holds the same
\* indicators in order, each ioc value cut to its first 500 characters.
C22_SignatureCleanup ==
    ReportReturned =>
        LET signatures == Get(response.json, "signatures", EmptyList).items
        IN  /\ ~IsRaised(triage_ret)
            /\ Len(Get(triage_ret, "signatures", EmptyList).items) = Len(signatures)
            /\ \A i \in 1..Len(signatures) :
                  Get(Get(triage_ret, "signatures", EmptyList).items[i], "indicators", None)
                      = PyList(ExpectedIndicators(signatures[i]))

----------------------------------------------------------------------------
(* The config records *)

\* The four base fields of the record of a config payload
BaseFields(config_payload) ==
    LET attributes == Get(config_payload, "attributes", EmptyDict)
    IN  PyDict(<< <<"family", Get(attributes, "family", PyStr(""))>>,
                  <<"type", Get(attributes, "type", PyStr(""))>>,
                  <<"vetted", Get(attributes, "vetted", PyStr("false"))>>,
                  <<"created_by", Get(config_payload, "created_by", PyStr(""))>> >>)

\* The entries of a record as a set of (key, value)
Entries(d) == Range(d.kv)

\* The record a config payload with a body is to give: the body merged
\* over the base fields when it is a mapping, the base fields and the raw
\* body under data when it is anything else
ExpectedConfigEntries(config_payload) ==
    LET body == Get(config_payload, "data", None)
        base == BaseFields(config_payload)
    IN  IF IsDict(body)
        THEN {e \in Entries(base) : ~HasKey(body, e[1])} \cup Entries(body)
        ELSE Entries(base) \cup {<<"data", body>>}

\* The config payloads of the raw report that have a body
ConfigPayloadsWithBody(raw) ==
    LET payloads == Get(raw, "payloads", EmptyDict)
    IN  {k \in 1..Len(payloads.kv) :
            /\ Get(payloads.kv[k][2], "payload_type", None) = PyStr("config")
            /\ Get(payloads.kv[k][2], "parent_payload_id", None) # PyStr("")
            /\ HasKey(payloads.kv[k][2], "data")}

\* C23: the record of a config payload is the base fields family, type,
\* vetted, created_by with the entries of the body merged over them when
\* the body is a mapping; when the body is anything else (a string, the
\* empty one included, a number, a sequence, one of pairs included) nothing
\* of the body is merged and the record is the four base fields and the
\* raw body under the key data.
C23_ConfigRecord ==
    (norm_pc = "returned" /\ HasPayloadsAndResults(raw_report)) =>
        /\ norm_ret.exc = None
        /\ \A k \in ConfigPayloadsWithBody(raw_report) :
              LET sha256 == Get(raw_report, "payloads", EmptyDict).kv[k][1]
                  config_payload == Get(raw_report, "payloads", EmptyDict).kv[k][2]
                  record == Get(Get(norm_ret.ret, "configs", EmptyDict), sha256, EmptyDict)
              IN  /\ Entries(record) = ExpectedConfigEntries(config_payload)
                  /\ Len(record.kv) = Cardinality(Entries(record))

----------------------------------------------------------------------------
(* Sentences and leaves *)

\* The values a container holds, in order
Elements(v) == IF IsDict(v) THEN [i \in 1..Len(v.kv) |-> v.kv[i][2]] ELSE v.items

\* The number of sentences the recursion is to emit for v: none for an
\* empty container, one for a leaf, and for any other container those of
\* its elements
RECURSIVE SentencesDue(_)
RECURSIVE SentencesDueFrom(_, _)
SentencesDue(v) ==
    IF IsContainer(v) /\ PyLen(v) = 0 THEN 0
    ELSE IF check_for_leaf(v) THEN 1
    ELSE SentencesDueFrom(Elements(v), 1)
SentencesDueFrom(values, i) ==
    IF i > Len(values) THEN 0
    ELSE SentencesDue(values[i]) + SentencesDueFrom(values, i + 1)

\* The result records of all payloads, in order
RECURSIVE ResultRecordsOf(_)
ResultRecordsOf(results) ==
    IF results.kv = <<>> THEN <<>>
    ELSE Head(results.kv)[2].items \o ResultRecordsOf(PyDict(Tail(results.kv)))

\* The structures of the canonical structure d that the recursion is
\* started on: each config, each result record, each triage detail
RecursionRoots(d) ==
    Elements(Get(d, "configs", EmptyDict))
        \o ResultRecordsOf(Get(d, "results", EmptyDict))
        \o Elements(Get(d, "triage_results", EmptyDict))

\* C24: the recursive naturalization emits exactly one sentence for each
\* leaf and none for an empty container: the sentences of the configs, the
\* results and the triage details are as many as their leaves, an empty
\* mapping or sequence anywhere in them adding none.
C24_OneSentencePerLeaf ==
    (/\ nat_pc = "returned" /\ IsList(nat_ret)
     /\ \A key \in {"configs", "hierarchy", "results", "triage_results"} : HasKey(nat_arg, key))
        => Len(nat_ret.items)
               = Len(naturalize_hierarchy(Get(nat_arg, "hierarchy", EmptyDict)))
                     + SentencesDueFrom(RecursionRoots(nat_arg), 1)

\* The values of a structure: itself and the values its elements hold
RECURSIVE SubValues(_)
SubValues(v) ==
    {v} \cup (IF IsContainer(v)
              THEN UNION {SubValues(Elements(v)[i]) : i \in 1..PyLen(v)}
              ELSE {})

\* C25: the leaf test. A scalar or a string is a leaf; a sequence of more
\* than one element is a leaf exactly when none of its elements is a
\* mapping or a sequence; a sequence of one element exactly when that
\* element is a leaf; a mapping exactly when each of its values is a
\* scalar, a string or a container of at most one element that is a leaf.
\* So a value that is no leaf is a mapping or a sequence.
C25_LeafTest ==
    nat_pc = "returned" =>
        \A v \in SubValues(nat_arg) :
            /\ ~IsContainer(v) => check_for_leaf(v)
            /\ (IsList(v) /\ PyLen(v) > 1)
                  => (check_for_leaf(v) <=> \A i \in 1..PyLen(v) : ~IsContainer(v.items[i]))
            /\ (IsList(v) /\ PyLen(v) = 1)
                  => (check_for_leaf(v) <=> check_for_leaf(v.items[1]))
            /\ IsDict(v)
                  => (check_for_leaf(v) <=>
                         \A i \in 1..PyLen(v) :
                             \/ ~IsContainer(v.kv[i][2])
                             \/ PyLen(v.kv[i][2]) <= 1 /\ check_for_leaf(v.kv[i][2]))
            /\ ~check_for_leaf(v) => IsContainer(v)

\* A structure that was naturalized and holds a sequence of one element
\* that is no leaf, one that is a leaf, a longer sequence that is no leaf,
\* and a mapping that is a leaf through a value of one element
C25_Witness ==
    /\ nat_pc = "returned" /\ IsList(nat_ret)
    /\ \E v \in SubValues(nat_arg) :
          IsList(v) /\ PyLen(v) = 1 /\ IsDict(v.items[1]) /\ ~check_for_leaf(v)
    /\ \E v \in SubValues(nat_arg) :
          IsList(v) /\ PyLen(v) = 1 /\ IsContainer(v.items[1]) /\ check_for_leaf(v)
    /\ \E v \in SubValues(nat_arg) :
          IsList(v) /\ PyLen(v) > 1 /\ ~check_for_leaf(v)
    /\ \E v \in SubValues(nat_arg) :
          /\ IsDict(v) /\ check_for_leaf(v)
          /\ \E i \in 1..PyLen(v) : IsContainer(v.kv[i][2]) /\ PyLen(v.kv[i][2]) = 1

----------------------------------------------------------------------------
(* The sentences of the hierarchy *)

\* The sentences of the returned list that speak of a hierarchy node
HierarchySentences ==
    SelectSeq(nat_ret.items,
              LAMBDA sentence :
                  /\ Len(sentence) > 0
                  /\ sentence[1] \in {"The root of the hierarchy is: The ",
                                      "The root of the hierarchy has ", "The "})

\* The breakdown of the children of the node under key: (type, count) in
\* the order in which the sentence lists them
Breakdown(hierarchy, key) ==
    SortedByCountDesc(CountTypes(<<>>, hierarchy, ChildrenOf(hierarchy, key), 1))

\* The position at which a type is first met in the children of a node
FirstMet(hierarchy, key, type) ==
    CHOOSE n \in 1..Len(ChildrenOf(hierarchy, key)) :
        /\ Get(Get(hierarchy, ChildrenOf(hierarchy, key)[n].s, EmptyDict), "type", None) = type
        /\ \A m \in 1..(n - 1) :
              Get(Get(hierarchy, ChildrenOf(hierarchy, key)[m].s, EmptyDict), "type", None)
                  # type

RECURSIVE SumOfCounts(_)
SumOfCounts(pairs) == IF pairs = <<>> THEN 0 ELSE Head(pairs)[2] + SumOfCounts(Tail(pairs))

\* The breakdown of a node lists the types by falling count, equal counts
\* in the order in which the types are first met, and its counts add up to
\* the number of children
BreakdownOrdered(hierarchy, key) ==
    LET listed == Breakdown(hierarchy, key)
    IN  /\ \A a, b \in 1..Len(listed) :
              a < b => \/ listed[a][2] > listed[b][2]
                       \/ /\ listed[a][2] = listed[b][2]
                          /\ FirstMet(hierarchy, key, listed[a][1])
                                 < FirstMet(hierarchy, key, listed[b][1])
        /\ SumOfCounts(listed) = Len(ChildrenOf(hierarchy, key))

\* C26: for the root and for every other node of the hierarchy two
\* sentences are emitted, one with its type and hash and one with the
\* number of its children and their breakdown; the breakdown lists the
\* child types by falling count, equal counts in the order of first
\* occurrence, and the counts add up to the number of children.
C26_TwoSentencesPerNode ==
    (/\ nat_pc = "returned" /\ IsList(nat_ret)
     /\ HasKey(nat_arg, "configs") /\ HasKey(nat_arg, "hierarchy")
     /\ HasKey(Get(nat_arg, "hierarchy", EmptyDict), "root"))
        => LET hierarchy == Get(nat_arg, "hierarchy", EmptyDict)
           IN  /\ Len(HierarchySentences) = 2 * Len(hierarchy.kv)
               /\ \A key \in Keys(hierarchy) : BreakdownOrdered(hierarchy, key)

----------------------------------------------------------------------------
(* Two requests at once; the entry and the filter *)

\* Two requests without reprocess for one id that both found no entry,
\* both fetched and both stored
BothMissed(c1, c2) ==
    /\ c1 # c2
    /\ calls[c1].karton_submission_id = calls[c2].karton_submission_id
    /\ MissStored(calls[c1]) /\ MissStored(calls[c2])
    /\ calls[c1].fetches = 1 /\ calls[c2].fetches = 1

\* C27: two requests without reprocess for one id with no entry, running
\* at once, may both miss, both fetch and both store; however their steps
\* interleave, the entry that is stored in the end is the complete result
\* of one of the two, and both callers get a complete list of sentences.
C27_ConcurrentMissesStoreOneResult ==
    \A c1, c2 \in 1..NCalls :
        (BothMissed(c1, c2) /\ Finished(calls[c1]) /\ Finished(calls[c2])) =>
            LET entry == persistence[calls[c1].karton_submission_id]
            IN  /\ entry \in {calls[c1].enriched_data, calls[c2].enriched_data}
                /\ IsList(entry)
                /\ \A c \in {c1, c2} :
                      ~calls[c].use_regex
                          => /\ calls[c].pc = "returned"
                             /\ IsList(calls[c].result)

\* A request that stored what it computed
Stored(call) == "store" \in Range(call.steps)

\* C28: the entry does not depend on the filter. What a request stores
\* under its id is the complete enriched list, with every sentence of the
\* naturalized data in it, the same whatever pattern and use_regex the
\* request carries; the filter runs only after the load or the compute, so
\* a request with a malformed pattern for an id without entry still
\* fetches and stores before it fails.
C28_EntryIndependentOfFilter ==
    \A c \in 1..NCalls :
        /\ Stored(calls[c]) =>
              /\ IsList(calls[c].enriched_data)
              /\ Range(calls[c].naturalized_data.items)
                     \subseteq Range(calls[c].enriched_data.items)
              /\ \A b \in 1..NCalls :
                    (/\ Stored(calls[b])
                     /\ calls[b].karton_result = calls[c].karton_result
                     /\ calls[b].naturalized_data = calls[c].naturalized_data)
                        => calls[b].enriched_data = calls[c].enriched_data
        /\ "filter" \in Range(calls[c].steps) =>
              /\ calls[c].steps[Len(calls[c].steps)] = "filter"
              /\ Range(calls[c].steps) \cap {"load", "store"} # {}
        /\ (/\ Finished(calls[c]) /\ calls[c].use_regex
            /\ ~WellFormedRegex(calls[c].regex_or_search)
            /\ calls[c].repreprocess /\ calls[c].status_code = 200
            /\ ~MissingTopLevelKey(calls[c].karton_result))
              => /\ Stored(calls[c]) /\ calls[c].fetches = 1
                 /\ calls[c].result = RaisedMsg("ValueError", InvalidRegexMessage)

====
